---- MODULE Spec2Model ----
(***************************************************************************)
(* A model of the DNS server of hgye/codecrafters-dns-server-go: the       *)
(* header codec and its flag accessors, the name codec with compression,   *)
(* the message codec and the request handler.                              *)
(*                                                                         *)
(* Bytes are the integers 0..255, a []byte and a Go string are sequences   *)
(* of bytes (Go indexes from 0, the sequences here from 1: data[i] of the  *)
(* source is data[i+1] here).  An error is a string naming the innermost   *)
(* error of the %w chain; NoErr is Go's nil error.                         *)
(***************************************************************************)
EXTENDS Integers, Sequences, FiniteSets, TLC

VARIABLES
    pc,             \* position of the operation in progress
    h,              \* the MessageHeader a header or accessor call works on
    call,           \* the setter call made on h: name, argument, Flags before
    hdrBytes,       \* result of MessageHeader.MarshalBinary
    hOut,           \* header filled by MessageHeader.UnmarshalBinary (latest message.go)
    hOutApp,        \* header filled by MessageHeader.UnmarshalBinary (src/app/message.go)
    m,              \* the Message that Message.MarshalBinary is called on
    buf,            \* MarshalBinary's bytes.Buffer
    compressionMap, \* MarshalBinary's CompressionMap
    idx,            \* loop index (from 1) of MarshalBinary's, or Handle's, current loop
    spans,          \* for each entry encoded so far, where its name field lies in buf
    encErr,         \* the error MarshalBinary returned
    mOut,           \* result of Message.UnmarshalBinary on the marshalled bytes
    marshalOut,     \* the bytes Message.MarshalBinary returned
    data,           \* the buffer decodeDNSName is called on
    offset,         \* the offset decodeDNSName is called with
    decoded,        \* result of decodeDNSName
    frames,         \* call stack of decodeDNSNameWithCompression, innermost last
    ret,            \* what the invocation that just returned has returned
    work,           \* the operation run step by step: its loop counters and results
    steps,          \* how many steps the operation run step by step has taken
    requestData,    \* DNSHandler.requestData
    request,        \* DNSHandler.request
    allAnswers,     \* Handle's allAnswers
    response,       \* DNSHandler.response
    respBytes,      \* the bytes Handle returned
    handleErr,      \* the error Handle returned
    appResp,        \* what handleDNSRequest (src/app/main.go) returned
    handlers,       \* the DNSHandler values of concurrent Handle invocations
    udpConn,        \* main's socket: the datagrams read from it and written to it
    source          \* main's source: the sender of the datagram last read

vars == <<pc, h, call, hdrBytes, hOut, hOutApp, m, buf, compressionMap, idx, spans,
          encErr, mOut, marshalOut, data, offset, decoded, frames, ret, work, steps, requestData, request, allAnswers,
          response, respBytes, handleErr, appResp, handlers, udpConn, source>>

hdrVars == <<h, call, hdrBytes, hOut, hOutApp>>
msgVars == <<m, buf, compressionMap, idx, spans, encErr, mOut, marshalOut>>
nameVars == <<data, offset, decoded, frames, ret, work, steps>>
handlerVars == <<requestData, request, allAnswers, response, respBytes, handleErr, appResp,
                 handlers, udpConn, source>>

NoErr == ""
None == <<>>

(***************************************************************************)
(* Fixed-width integer arithmetic of Go.                                   *)
(***************************************************************************)
RECURSIVE BitAnd(_, _)
BitAnd(x, y) ==
    IF x = 0 \/ y = 0 THEN 0
    ELSE (x % 2) * (y % 2) + 2 * BitAnd(x \div 2, y \div 2)

RECURSIVE BitOr(_, _)
BitOr(x, y) ==
    IF x = 0 THEN y
    ELSE IF y = 0 THEN x
    ELSE (IF x % 2 = 1 \/ y % 2 = 1 THEN 1 ELSE 0) + 2 * BitOr(x \div 2, y \div 2)

\* x &^ y
BitAndNot(x, y) == x - BitAnd(x, y)

Pow2(k) == 2 ^ k
Uint8(x) == x % 256
Uint16(x) == x % 65536
\* uint16 shifts
Shl16(x, k) == Uint16(x * Pow2(k))
Shr(x, k) == x \div Pow2(k)
\* byte(x) of a wider unsigned value
Byte(x) == x % 256

\* binary.BigEndian.Uint16 / Uint32 and binary.Write of uint16 / uint32.  The
\* integers here are 32-bit signed: a uint32 u of 2^31 or more is u - 2^32
\* here.  The only uint32 of the program is the TTL, which is read, copied
\* and written, never compared or computed with.
BigEndianUint16(b1, b2) == b1 * 256 + b2
BigEndianUint32(b1, b2, b3, b4) ==
    (((IF b1 < 128 THEN b1 ELSE b1 - 256) * 256 + b2) * 256 + b3) * 256 + b4
WriteUint16(x) == <<Byte(Shr(x, 8)), Byte(x)>>
WriteUint32(x) == <<Byte(Shr(x, 24)), Byte(Shr(x, 16)), Byte(Shr(x, 8)), Byte(x)>>

(***************************************************************************)
(* Program constants.                                                      *)
(***************************************************************************)
DNSHeaderSize == 12
MaxLabelLength == 63
MaxDomainLength == 253
CompressionMask == 192
CompressionOffset == 16383
MaxCompressionJumps == 5
RecordTypeA == 1
ClassIN == 1
RCodeNoError == 0
RCodeNotImpl == 4
AnswerTTL == 60
Dot == 46

(***************************************************************************)
(* MessageHeader: flag accessors.                                          *)
(***************************************************************************)
ZeroHeader == [Id |-> 0, Flags |-> 0, QDCount |-> 0, ANCount |-> 0, NSCount |-> 0, ARCount |-> 0]

GetQR(hh) == Uint8(BitAnd(Shr(hh.Flags, 15), 1))
GetOpcode(hh) == Uint8(BitAnd(Shr(hh.Flags, 11), 15))
GetAA(hh) == Uint8(BitAnd(Shr(hh.Flags, 10), 1))
GetTC(hh) == Uint8(BitAnd(Shr(hh.Flags, 9), 1))
GetRD(hh) == Uint8(BitAnd(Shr(hh.Flags, 8), 1))
GetRA(hh) == Uint8(BitAnd(Shr(hh.Flags, 7), 1))
GetZ(hh) == Uint8(BitAnd(Shr(hh.Flags, 4), 7))
GetRcode(hh) == Uint8(BitAnd(hh.Flags, 15))

SetQR(hh, qr) ==
    [hh EXCEPT !.Flags = BitOr(BitAndNot(hh.Flags, Shl16(1, 15)), Shl16(BitAnd(qr, 1), 15))]

\* a setter that forgets to mask its argument: uint16(opcode) << 11
SetOpcodeUnmasked(hh, opcode) ==
    [hh EXCEPT !.Flags = BitOr(BitAndNot(hh.Flags, Shl16(15, 11)), Shl16(opcode, 11))]

SetOpcode(hh, opcode) ==
    [hh EXCEPT !.Flags = BitOr(BitAndNot(hh.Flags, Shl16(15, 11)), Shl16(BitAnd(opcode, 15), 11))]

SetAA(hh, aa) ==
    [hh EXCEPT !.Flags = BitOr(BitAndNot(hh.Flags, Shl16(1, 10)), Shl16(BitAnd(aa, 1), 10))]

SetTC(hh, tc) ==
    [hh EXCEPT !.Flags = BitOr(BitAndNot(hh.Flags, Shl16(1, 9)), Shl16(BitAnd(tc, 1), 9))]

SetRD(hh, rd) ==
    [hh EXCEPT !.Flags = BitOr(BitAndNot(hh.Flags, Shl16(1, 8)), Shl16(BitAnd(rd, 1), 8))]

SetRA(hh, ra) ==
    [hh EXCEPT !.Flags = BitOr(BitAndNot(hh.Flags, Shl16(1, 7)), Shl16(BitAnd(ra, 1), 7))]

SetZ(hh, z) ==
    [hh EXCEPT !.Flags = BitOr(BitAndNot(hh.Flags, Shl16(7, 4)), Shl16(BitAnd(z, 7), 4))]

SetRcode(hh, rcode) ==
    [hh EXCEPT !.Flags = BitOr(BitAndNot(hh.Flags, 15), BitAnd(rcode, 15))]

(***************************************************************************)
(* MessageHeader: the 12-byte codec.                                       *)
(***************************************************************************)
MessageHeader_MarshalBinary(hh) ==
    << Byte(Shr(hh.Id, 8)), Byte(hh.Id),
       Byte(Shr(hh.Flags, 8)), Byte(hh.Flags),
       Byte(Shr(hh.QDCount, 8)), Byte(hh.QDCount),
       Byte(Shr(hh.ANCount, 8)), Byte(hh.ANCount),
       Byte(Shr(hh.NSCount, 8)), Byte(hh.NSCount),
       Byte(Shr(hh.ARCount, 8)), Byte(hh.ARCount) >>

\* The latest message.go.  hh is the receiver as it was before the call; the
\* result is the receiver after the call and the error.
MessageHeader_UnmarshalBinary(hh, d) ==
    IF Len(d) < DNSHeaderSize
    THEN [h |-> hh, err |-> "header too short"]
    ELSE [h |-> [Id |-> BigEndianUint16(d[1], d[2]),
                 Flags |-> BigEndianUint16(d[3], d[4]),
                 QDCount |-> BigEndianUint16(d[5], d[6]),
                 ANCount |-> BigEndianUint16(d[7], d[8]),
                 NSCount |-> BigEndianUint16(d[9], d[10]),
                 ARCount |-> BigEndianUint16(d[11], d[12])],
          err |-> NoErr]

\* src/app/message.go: bytes 10-11 are assigned to ANCount a second time and
\* ARCount is left as the receiver had it.
MessageHeader_UnmarshalBinary_App(hh, d) ==
    IF Len(d) < 12
    THEN [h |-> hh, err |-> "header too short"]
    ELSE [h |-> [Id |-> BigEndianUint16(d[1], d[2]),
                 Flags |-> BigEndianUint16(d[3], d[4]),
                 QDCount |-> BigEndianUint16(d[5], d[6]),
                 ANCount |-> BigEndianUint16(d[11], d[12]),
                 NSCount |-> BigEndianUint16(d[9], d[10]),
                 ARCount |-> hh.ARCount],
          err |-> NoErr]

(***************************************************************************)
(* Go strings: strings.Split(s, ".") and strings.Join(parts, ".").          *)
(***************************************************************************)
Split(s) ==
    LET dots == {i \in 1..Len(s) : s[i] = Dot}
        n == Cardinality(dots)
        pos(k) == IF k = 0 THEN 0
                  ELSE IF k = n + 1 THEN Len(s) + 1
                  ELSE CHOOSE i \in dots : Cardinality({j \in dots : j < i}) = k - 1
    IN  [k \in 1..(n + 1) |-> SubSeq(s, pos(k - 1) + 1, pos(k) - 1)]

RECURSIVE Join(_)
Join(parts) ==
    IF Len(parts) = 0 THEN <<>>
    ELSE IF Len(parts) = 1 THEN parts[1]
    ELSE parts[1] \o <<Dot>> \o Join(Tail(parts))

(***************************************************************************)
(* Name codec.                                                             *)
(***************************************************************************)
\* compressionMap[suffix] = v
MapPut(cm, k, v) == [x \in (DOMAIN cm) \cup {k} |-> IF x = k THEN v ELSE cm[x]]

\* the loop with the suffix's position recorded after its label is written
RECURSIVE EncodeLabelsLateOffset(_, _, _, _)
EncodeLabelsLateOffset(labels, i, b, cm) ==
    IF i > Len(labels)
    THEN [buf |-> Append(b, 0), cmap |-> cm, err |-> NoErr]
    ELSE LET suffix == Join(SubSeq(labels, i, Len(labels))) IN
         IF suffix = <<>>
         THEN EncodeLabelsLateOffset(labels, i + 1, b, cm)
         ELSE IF suffix \in DOMAIN cm
         THEN LET pointer == BitOr(49152, BitAnd(cm[suffix], 16383)) IN
              [buf |-> b \o WriteUint16(Uint16(pointer)), cmap |-> cm, err |-> NoErr]
         ELSE LET label == labels[i]
                  b2 == IF Len(label) > 0 THEN b \o <<Byte(Len(label))>> \o label ELSE b
                  cm2 == MapPut(cm, suffix, Len(b2))
              IN  IF Len(label) > MaxLabelLength
                  THEN [buf |-> b, cmap |-> cm2, err |-> "label too long"]
                  ELSE EncodeLabelsLateOffset(labels, i + 1, b2, cm2)

\* the loop storing the current position for a suffix it finds in the table
RECURSIVE EncodeLabelsRestamp(_, _, _, _)
EncodeLabelsRestamp(labels, i, b, cm) ==
    IF i > Len(labels)
    THEN [buf |-> Append(b, 0), cmap |-> cm, err |-> NoErr]
    ELSE LET suffix == Join(SubSeq(labels, i, Len(labels))) IN
         IF suffix = <<>>
         THEN EncodeLabelsRestamp(labels, i + 1, b, cm)
         ELSE IF suffix \in DOMAIN cm
         THEN LET pointer == BitOr(49152, BitAnd(cm[suffix], 16383)) IN
              [buf |-> b \o WriteUint16(Uint16(pointer)), cmap |-> MapPut(cm, suffix, Len(b)),
               err |-> NoErr]
         ELSE LET cm2 == MapPut(cm, suffix, Len(b))
                  label == labels[i]
              IN  IF Len(label) > MaxLabelLength
                  THEN [buf |-> b, cmap |-> cm2, err |-> "label too long"]
                  ELSE EncodeLabelsRestamp(labels, i + 1,
                                           IF Len(label) > 0 THEN b \o <<Byte(Len(label))>> \o label ELSE b,
                                           cm2)

\* The loop of encodeDNSNameWithCompression from label i on (labels[i-1] in Go).
RECURSIVE EncodeLabels(_, _, _, _)
EncodeLabels(labels, i, b, cm) ==
    IF i > Len(labels)
    THEN [buf |-> Append(b, 0), cmap |-> cm, err |-> NoErr]
    ELSE LET suffix == Join(SubSeq(labels, i, Len(labels))) IN
         IF suffix = <<>>
         THEN EncodeLabels(labels, i + 1, b, cm)
         ELSE IF suffix \in DOMAIN cm
         THEN LET pointer == BitOr(49152, BitAnd(cm[suffix], 16383)) IN
              [buf |-> b \o WriteUint16(Uint16(pointer)), cmap |-> cm, err |-> NoErr]
         ELSE LET cm2 == MapPut(cm, suffix, Len(b))
                  label == labels[i]
              IN  IF Len(label) > MaxLabelLength
                  THEN [buf |-> b, cmap |-> cm2, err |-> "label too long"]
                  ELSE EncodeLabels(labels, i + 1,
                                    IF Len(label) > 0 THEN b \o <<Byte(Len(label))>> \o label ELSE b,
                                    cm2)

\* the encoder without its test of len(name)
encodeDNSNameNoLengthCheck(name, b, cm) == EncodeLabels(Split(name), 1, b, cm)

encodeDNSNameWithCompression(name, b, cm) ==
    IF Len(name) > MaxDomainLength
    THEN [buf |-> b, cmap |-> cm, err |-> "domain name too long"]
    ELSE EncodeLabels(Split(name), 1, b, cm)

encodeDNSName(name, b) == encodeDNSNameWithCompression(name, b, <<>>)

DecodeError(e, depth) == [name |-> <<>>, next |-> 0, err |-> e, depth |-> depth]

\* decodeDNSNameWithCompression and its for loop.  The loop is entered with
\* i = offset, no name parts and totalLength = 0.  depth is the largest value
\* of jumps any invocation has been entered with.
RECURSIVE decodeDNSNameWithCompression(_, _, _)

\* the loop returning the offset the pointed name ended at, in place of
\* savedOffset
RECURSIVE DecodeLoopNextOfTarget(_, _, _, _, _)
DecodeLoopNextOfTarget(d, jumps, i, nameParts, totalLength) ==
    IF i >= Len(d)
    THEN DecodeError("data too short while reading DNS name", jumps)
    ELSE LET lengthByte == d[i + 1] IN
         IF BitAnd(lengthByte, CompressionMask) = CompressionMask
         THEN IF i + 1 >= Len(d)
              THEN DecodeError("data too short for compression pointer", jumps)
              ELSE LET pointerOffset == BitAnd(BigEndianUint16(d[i + 1], d[i + 2]), CompressionOffset)
                       pointed == decodeDNSNameWithCompression(d, pointerOffset, jumps + 1)
                   IN  IF pointed.err # NoErr
                       THEN DecodeError(pointed.err, pointed.depth)
                       ELSE [name |-> Join(IF pointed.name # <<>>
                                           THEN Append(nameParts, pointed.name)
                                           ELSE nameParts),
                             next |-> pointed.next, err |-> NoErr, depth |-> pointed.depth]
         ELSE LET length == lengthByte IN
              IF length = 0
              THEN [name |-> Join(nameParts), next |-> i + 1, err |-> NoErr, depth |-> jumps]
              ELSE IF length > MaxLabelLength
              THEN DecodeError("label length exceeds maximum", jumps)
              ELSE IF i + 1 + length > Len(d)
              THEN DecodeError("data too short while reading DNS name label", jumps)
              ELSE IF totalLength + length + 1 > MaxDomainLength
              THEN DecodeError("domain name too long", jumps)
              ELSE DecodeLoopNextOfTarget(d, jumps, i + length + 1,
                                          Append(nameParts, SubSeq(d, i + 2, i + 1 + length)),
                                          totalLength + length + 1)

RECURSIVE DecodeLoop(_, _, _, _, _)
DecodeLoop(d, jumps, i, nameParts, totalLength) ==
    IF i >= Len(d)
    THEN DecodeError("data too short while reading DNS name", jumps)
    ELSE LET lengthByte == d[i + 1] IN
         IF BitAnd(lengthByte, CompressionMask) = CompressionMask
         THEN IF i + 1 >= Len(d)
              THEN DecodeError("data too short for compression pointer", jumps)
              ELSE LET pointerOffset == BitAnd(BigEndianUint16(d[i + 1], d[i + 2]), CompressionOffset)
                       savedOffset == i + 2
                       pointed == decodeDNSNameWithCompression(d, pointerOffset, jumps + 1)
                   IN  IF pointed.err # NoErr
                       THEN DecodeError(pointed.err, pointed.depth)
                       ELSE [name |-> Join(IF pointed.name # <<>>
                                           THEN Append(nameParts, pointed.name)
                                           ELSE nameParts),
                             next |-> savedOffset, err |-> NoErr, depth |-> pointed.depth]
         ELSE LET length == lengthByte IN
              IF length = 0
              THEN [name |-> Join(nameParts), next |-> i + 1, err |-> NoErr, depth |-> jumps]
              ELSE IF length > MaxLabelLength
              THEN DecodeError("label length exceeds maximum", jumps)
              ELSE IF i + 1 + length > Len(d)
              THEN DecodeError("data too short while reading DNS name label", jumps)
              ELSE IF totalLength + length + 1 > MaxDomainLength
              THEN DecodeError("domain name too long", jumps)
              ELSE DecodeLoop(d, jumps, i + length + 1,
                              Append(nameParts, SubSeq(d, i + 2, i + 1 + length)),
                              totalLength + length + 1)

\* the jump check made against a larger bound
decodeDNSNameLooseBound(d, off, jumps) ==
    IF off >= Len(d)
    THEN DecodeError("offset exceeds data length", jumps)
    ELSE IF jumps > MaxCompressionJumps + 2
    THEN DecodeError("too many compression jumps", jumps)
    ELSE DecodeLoop(d, jumps, off, <<>>, 0)

decodeDNSNameWithCompression(d, off, jumps) ==
    IF off >= Len(d)
    THEN DecodeError("offset exceeds data length", jumps)
    ELSE IF jumps > MaxCompressionJumps
    THEN DecodeError("too many compression jumps", jumps)
    ELSE DecodeLoop(d, jumps, off, <<>>, 0)

decodeDNSName(d, off) == decodeDNSNameWithCompression(d, off, 0)

(***************************************************************************)
(* Record codec: Question and ResourceRecord on their own.                 *)
(***************************************************************************)
Question_MarshalBinary(q) ==
    LET e == encodeDNSName(q.Name, <<>>) IN
    IF e.err # NoErr
    THEN [bytes |-> <<>>, err |-> e.err]
    ELSE [bytes |-> e.buf \o WriteUint16(q.Type) \o WriteUint16(q.Class), err |-> NoErr]

ResourceRecord_MarshalBinary(rr) ==
    LET e == encodeDNSName(rr.Name, <<>>) IN
    IF e.err # NoErr
    THEN [bytes |-> <<>>, err |-> e.err]
    ELSE [bytes |-> e.buf \o WriteUint16(rr.Type) \o WriteUint16(rr.Class) \o WriteUint32(rr.TTL)
                      \o WriteUint16(Uint16(Len(rr.RData))) \o rr.RData,
          err |-> NoErr]

\* UnmarshalFrom without the test of the four bytes after the name: bytes
\* that are not there read as 0
Question_UnmarshalFromNoTailTest(msg, off) ==
    IF off >= Len(msg)
    THEN [q |-> None, next |-> 0, err |-> "offset out of range"]
    ELSE LET n == decodeDNSName(msg, off)
             nextOffset == n.next
             at(i) == IF i <= Len(msg) THEN msg[i] ELSE 0
         IN  IF n.err # NoErr
             THEN [q |-> None, next |-> 0, err |-> n.err]
             ELSE [q |-> [Name |-> n.name,
                          Type |-> BigEndianUint16(at(nextOffset + 1), at(nextOffset + 2)),
                          Class |-> BigEndianUint16(at(nextOffset + 3), at(nextOffset + 4))],
                   next |-> nextOffset + 4, err |-> NoErr]

Question_UnmarshalFrom(msg, off) ==
    IF off >= Len(msg)
    THEN [q |-> None, next |-> 0, err |-> "offset out of range"]
    ELSE LET n == decodeDNSName(msg, off)
             nextOffset == n.next
         IN  IF n.err # NoErr
             THEN [q |-> None, next |-> 0, err |-> n.err]
             ELSE IF nextOffset + 4 > Len(msg)
             THEN [q |-> None, next |-> 0, err |-> "message too short for question type/class"]
             ELSE [q |-> [Name |-> n.name,
                          Type |-> BigEndianUint16(msg[nextOffset + 1], msg[nextOffset + 2]),
                          Class |-> BigEndianUint16(msg[nextOffset + 3], msg[nextOffset + 4])],
                   next |-> nextOffset + 4, err |-> NoErr]

(***************************************************************************)
(* Message codec.                                                          *)
(***************************************************************************)
\* One iteration of MarshalBinary's loop over m.Questions.
MarshalQuestion(q, b, cm) ==
    LET e == encodeDNSNameWithCompression(q.Name, b, cm) IN
    IF e.err # NoErr
    THEN e
    ELSE [e EXCEPT !.buf = e.buf \o WriteUint16(q.Type) \o WriteUint16(q.Class)]

\* One iteration of MarshalBinary's loop over m.Answers.
MarshalAnswer(rr, b, cm) ==
    LET e == encodeDNSNameWithCompression(rr.Name, b, cm) IN
    IF e.err # NoErr
    THEN e
    ELSE [e EXCEPT !.buf = e.buf \o WriteUint16(rr.Type) \o WriteUint16(rr.Class)
                                 \o WriteUint32(rr.TTL)
                                 \o WriteUint16(Uint16(Len(rr.RData))) \o rr.RData]

RECURSIVE MarshalQuestions(_, _, _, _)
MarshalQuestions(qs, i, b, cm) ==
    IF i > Len(qs)
    THEN [buf |-> b, cmap |-> cm, err |-> NoErr]
    ELSE LET e == MarshalQuestion(qs[i], b, cm) IN
         IF e.err # NoErr THEN e ELSE MarshalQuestions(qs, i + 1, e.buf, e.cmap)

RECURSIVE MarshalAnswers(_, _, _, _)
MarshalAnswers(as, i, b, cm) ==
    IF i > Len(as)
    THEN [buf |-> b, cmap |-> cm, err |-> NoErr]
    ELSE LET e == MarshalAnswer(as[i], b, cm) IN
         IF e.err # NoErr THEN e ELSE MarshalAnswers(as, i + 1, e.buf, e.cmap)

Message_MarshalBinary(mm) ==
    LET hb == MessageHeader_MarshalBinary(mm.Header)
        qs == MarshalQuestions(mm.Questions, 1, hb, <<>>)
        as == MarshalAnswers(mm.Answers, 1, qs.buf, qs.cmap)
    IN  IF qs.err # NoErr THEN [bytes |-> <<>>, err |-> qs.err]
        ELSE IF as.err # NoErr THEN [bytes |-> <<>>, err |-> as.err]
        ELSE [bytes |-> as.buf, err |-> NoErr]

\* UnmarshalBinary's loop over the questions: n are still to be read at off.
RECURSIVE UnmarshalQuestions(_, _, _, _)
UnmarshalQuestions(d, off, n, acc) ==
    IF n = 0
    THEN [list |-> acc, next |-> off, err |-> NoErr]
    ELSE LET nm == decodeDNSName(d, off)
             nameEndOffset == nm.next
         IN  IF nm.err # NoErr
             THEN [list |-> acc, next |-> off, err |-> nm.err]
             ELSE IF nameEndOffset + 4 > Len(d)
             THEN [list |-> acc, next |-> off, err |-> "data too short for question type/class"]
             ELSE UnmarshalQuestions(d, nameEndOffset + 4, n - 1,
                     Append(acc, [Name |-> nm.name,
                                  Type |-> BigEndianUint16(d[nameEndOffset + 1], d[nameEndOffset + 2]),
                                  Class |-> BigEndianUint16(d[nameEndOffset + 3], d[nameEndOffset + 4])]))

\* UnmarshalBinary's loop over the answers.
RECURSIVE UnmarshalAnswers(_, _, _, _)
UnmarshalAnswers(d, off, n, acc) ==
    IF n = 0
    THEN [list |-> acc, next |-> off, err |-> NoErr]
    ELSE LET nm == decodeDNSName(d, off)
             nameEndOffset == nm.next
         IN  IF nm.err # NoErr
             THEN [list |-> acc, next |-> off, err |-> nm.err]
             ELSE IF nameEndOffset + 10 > Len(d)
             THEN [list |-> acc, next |-> off, err |-> "data too short for answer fields"]
             ELSE LET RDLength == BigEndianUint16(d[nameEndOffset + 9], d[nameEndOffset + 10])
                      off2 == nameEndOffset + 10
                  IN  IF off2 + RDLength > Len(d)
                      THEN [list |-> acc, next |-> off, err |-> "data too short for answer RData"]
                      ELSE UnmarshalAnswers(d, off2 + RDLength, n - 1,
                             Append(acc, [Name |-> nm.name,
                                          Type |-> BigEndianUint16(d[nameEndOffset + 1], d[nameEndOffset + 2]),
                                          Class |-> BigEndianUint16(d[nameEndOffset + 3], d[nameEndOffset + 4]),
                                          TTL |-> BigEndianUint32(d[nameEndOffset + 5], d[nameEndOffset + 6],
                                                                  d[nameEndOffset + 7], d[nameEndOffset + 8]),
                                          RDLength |-> RDLength,
                                          RData |-> SubSeq(d, off2 + 1, off2 + RDLength)]))

\* On an error the receiver is left half filled and no caller reads it: msg is None.
Message_UnmarshalBinary(d) ==
    IF Len(d) < DNSHeaderSize
    THEN [msg |-> None, err |-> "data too short for DNS message"]
    ELSE LET hd == MessageHeader_UnmarshalBinary(ZeroHeader, SubSeq(d, 1, DNSHeaderSize))
             qs == UnmarshalQuestions(d, DNSHeaderSize, hd.h.QDCount, <<>>)
             as == UnmarshalAnswers(d, qs.next, hd.h.ANCount, <<>>)
         IN  IF hd.err # NoErr THEN [msg |-> None, err |-> hd.err]
             ELSE IF qs.err # NoErr THEN [msg |-> None, err |-> qs.err]
             ELSE IF as.err # NoErr THEN [msg |-> None, err |-> as.err]
             ELSE [msg |-> [Header |-> hd.h, Questions |-> qs.list, Answers |-> as.list],
                   err |-> NoErr]

(***************************************************************************)
(* DNSHandler.                                                             *)
(***************************************************************************)
\* "stackoverflow.com"
NameStackoverflowCom ==
    <<115, 116, 97, 99, 107, 111, 118, 101, 114, 102, 108, 111, 119, 46, 99, 111, 109>>

\* "stackoverflow.design"
NameStackoverflowDesign ==
    <<115, 116, 97, 99, 107, 111, 118, 101, 114, 102, 108, 111, 119, 46, 100, 101, 115, 105, 103, 110>>

\* "def.codecrafters.io"
NameDefCodecraftersIo ==
    <<100, 101, 102, 46, 99, 111, 100, 101, 99, 114, 97, 102, 116, 101, 114, 115, 46, 105, 111>>

\* "mail.example.com"
NameMailExampleCom ==
    <<109, 97, 105, 108, 46, 101, 120, 97, 109, 112, 108, 101, 46, 99, 111, 109>>

mockDNSRecords ==
    [n \in {NameStackoverflowCom, NameStackoverflowDesign, NameDefCodecraftersIo, NameMailExampleCom} |->
        IF n = NameStackoverflowCom THEN <<151, 101, 129, 69>>
        ELSE IF n = NameStackoverflowDesign THEN <<151, 101, 1, 69>>
        ELSE IF n = NameDefCodecraftersIo THEN <<76, 76, 21, 21>>
        ELSE <<192, 168, 0, 2>>]

defaultMockIP == <<8, 8, 8, 8>>

\* parseRequest's loop over the questions: question number i (from 1) is read at off.
RECURSIVE ParseQuestions(_, _, _, _, _)
ParseQuestions(d, off, i, n, acc) ==
    IF i > n
    THEN [list |-> acc, err |-> NoErr]
    ELSE LET r == Question_UnmarshalFrom(d, off) IN
         IF r.err # NoErr
         THEN [list |-> acc, err |-> r.err]
         ELSE ParseQuestions(d, r.next, i + 1, n, Append(acc, r.q))

\* a question that fails to decode ends the loop and the questions parsed
\* before it are kept
parseRequestPartial(d) ==
    LET hd == MessageHeader_UnmarshalBinary(ZeroHeader, d) IN
    IF hd.err # NoErr
    THEN [request |-> None, err |-> hd.err]
    ELSE LET qs == ParseQuestions(d, DNSHeaderSize, 1, hd.h.QDCount, <<>>) IN
         [request |-> [Header |-> hd.h, Questions |-> qs.list, Answers |-> <<>>],
          err |-> NoErr]

\* On an error h.request stays nil (None).
parseRequest(d) ==
    LET hd == MessageHeader_UnmarshalBinary(ZeroHeader, d) IN
    IF hd.err # NoErr
    THEN [request |-> None, err |-> hd.err]
    ELSE LET qs == ParseQuestions(d, DNSHeaderSize, 1, hd.h.QDCount, <<>>) IN
         IF qs.err # NoErr
         THEN [request |-> None, err |-> qs.err]
         ELSE [request |-> [Header |-> hd.h, Questions |-> qs.list, Answers |-> <<>>],
               err |-> NoErr]

\* the lookup left out: every answer is the default address
forwardDefaultOnly(q) ==
    << [Name |-> q.Name, Type |-> RecordTypeA, Class |-> q.Class, TTL |-> AnswerTTL,
        RDLength |-> 0, RData |-> defaultMockIP] >>

\* The zero RDLength is the field's zero value: forward does not set it.
forward(q) ==
    LET found == q.Name \in DOMAIN mockDNSRecords
        ip == IF found THEN mockDNSRecords[q.Name] ELSE defaultMockIP
    IN  << [Name |-> q.Name, Type |-> RecordTypeA, Class |-> q.Class, TTL |-> AnswerTTL,
            RDLength |-> 0, RData |-> ip] >>

\* ANCount: 1, as the first handleDNSRequest had it
buildResponseHeaderOneAnswer(req, answers) ==
    LET reqHeader == req.Header
        h0 == [Id |-> reqHeader.Id, Flags |-> 0, QDCount |-> reqHeader.QDCount,
               ANCount |-> 1, NSCount |-> 0, ARCount |-> 0]
        h1 == SetQR(h0, 1)
        h2 == SetOpcode(h1, GetOpcode(reqHeader))
        h3 == SetRD(h2, GetRD(reqHeader))
    IN  IF GetOpcode(reqHeader) = 0
        THEN SetRcode(h3, RCodeNoError)
        ELSE SetRcode(h3, RCodeNotImpl)

\* the response header started from the request's Flags instead of from zero
buildResponseHeaderKeepsFlags(req, answers) ==
    LET reqHeader == req.Header
        h0 == [Id |-> reqHeader.Id, Flags |-> reqHeader.Flags, QDCount |-> reqHeader.QDCount,
               ANCount |-> Uint16(Len(answers)), NSCount |-> 0, ARCount |-> 0]
        h1 == SetQR(h0, 1)
        h2 == SetOpcode(h1, GetOpcode(reqHeader))
        h3 == SetRD(h2, GetRD(reqHeader))
    IN  IF GetOpcode(reqHeader) = 0
        THEN SetRcode(h3, RCodeNoError)
        ELSE SetRcode(h3, RCodeNotImpl)

buildResponseHeader(req, answers) ==
    LET reqHeader == req.Header
        h0 == [Id |-> reqHeader.Id, Flags |-> 0, QDCount |-> reqHeader.QDCount,
               ANCount |-> Uint16(Len(answers)), NSCount |-> 0, ARCount |-> 0]
        h1 == SetQR(h0, 1)
        h2 == SetOpcode(h1, GetOpcode(reqHeader))
        h3 == SetRD(h2, GetRD(reqHeader))
    IN  IF GetOpcode(reqHeader) = 0
        THEN SetRcode(h3, RCodeNoError)
        ELSE SetRcode(h3, RCodeNotImpl)

(***************************************************************************)
(* handleDNSRequest of src/app/main.go.                                    *)
(***************************************************************************)
\* The loop that builds one answer per parsed question.
RECURSIVE AppAnswers(_, _, _)
AppAnswers(qs, i, acc) ==
    IF i > Len(qs) THEN acc
    ELSE AppAnswers(qs, i + 1,
                    Append(acc, [Name |-> qs[i].Name, Type |-> RecordTypeA, Class |-> qs[i].Class,
                                 TTL |-> 60, RDLength |-> 0, RData |-> <<8, 8, 8, 8>>]))

handleDNSRequest(d) ==
    LET hd == MessageHeader_UnmarshalBinary(ZeroHeader, d) IN
    IF hd.err # NoErr
    THEN [bytes |-> <<>>, err |-> hd.err, response |-> None]
    ELSE LET requestHeader == hd.h
             qs == ParseQuestions(d, DNSHeaderSize, 1, requestHeader.QDCount, <<>>)
         IN  IF qs.err # NoErr
             THEN [bytes |-> <<>>, err |-> qs.err, response |-> None]
             ELSE LET h0 == [Id |-> requestHeader.Id, Flags |-> 0,
                             QDCount |-> requestHeader.QDCount,
                             ANCount |-> requestHeader.QDCount,
                             NSCount |-> 0, ARCount |-> 0]
                      h1 == SetQR(h0, 1)
                      h2 == SetOpcode(h1, GetOpcode(requestHeader))
                      h3 == SetRD(h2, GetRD(requestHeader))
                      responseHeader == IF GetOpcode(requestHeader) = 0
                                        THEN SetRcode(h3, RCodeNoError)
                                        ELSE SetRcode(h3, RCodeNotImpl)
                      responseMessage == [Header |-> responseHeader, Questions |-> qs.list,
                                          Answers |-> AppAnswers(qs.list, 1, <<>>)]
                      mb == Message_MarshalBinary(responseMessage)
                  IN  [bytes |-> mb.bytes, err |-> mb.err, response |-> responseMessage]

(***************************************************************************)
(* Values the variables of the other operations keep while one operation   *)
(* is checked.                                                             *)
(***************************************************************************)
IdleHeader ==
    /\ h = ZeroHeader /\ call = None /\ hdrBytes = None /\ hOut = None /\ hOutApp = None

IdleMessage ==
    /\ m = None /\ buf = <<>> /\ compressionMap = <<>> /\ idx = 0 /\ spans = <<>>
    /\ encErr = NoErr /\ mOut = None /\ marshalOut = None

IdleName ==
    /\ data = <<>> /\ offset = 0 /\ decoded = None
    /\ frames = <<>> /\ ret = None /\ work = None /\ steps = 0

IdleHandler ==
    /\ requestData = <<>> /\ request = None /\ allAnswers = <<>> /\ response = None
    /\ respBytes = None /\ handleErr = NoErr /\ appResp = None /\ handlers = <<>>
    /\ udpConn = None /\ source = None

(***************************************************************************)
(* SpecHeader: MessageHeader.MarshalBinary and the two UnmarshalBinary on  *)
(* its output (whole, or cut short).                                       *)
(***************************************************************************)
\* 0x0000, 0x0102, 0xABCD
FieldSamples == {0, 258, 43981}

HeaderInputs ==
    [Id : FieldSamples, Flags : FieldSamples, QDCount : FieldSamples,
     ANCount : FieldSamples, NSCount : FieldSamples, ARCount : FieldSamples]

HeaderCuts == {0, 11, 12}

InitHeader ==
    /\ pc = "header"
    /\ h \in HeaderInputs
    /\ call = None /\ hdrBytes = None /\ hOut = None /\ hOutApp = None
    /\ IdleMessage /\ IdleName /\ IdleHandler

HeaderMarshal ==
    /\ pc = "header"
    /\ hdrBytes' = MessageHeader_MarshalBinary(h)
    /\ pc' = "header marshalled"
    /\ UNCHANGED <<h, call, hOut, hOutApp, msgVars, nameVars, handlerVars>>

HeaderUnmarshal ==
    /\ pc = "header marshalled"
    /\ hOut = None
    /\ \E n \in HeaderCuts :
          hOut' = [n |-> n] @@ MessageHeader_UnmarshalBinary(ZeroHeader, SubSeq(hdrBytes, 1, n))
    /\ UNCHANGED <<pc, h, call, hdrBytes, hOutApp, msgVars, nameVars, handlerVars>>

HeaderUnmarshalApp ==
    /\ pc = "header marshalled"
    /\ hOutApp = None
    /\ \E n \in HeaderCuts :
          hOutApp' = [n |-> n] @@ MessageHeader_UnmarshalBinary_App(ZeroHeader, SubSeq(hdrBytes, 1, n))
    /\ UNCHANGED <<pc, h, call, hdrBytes, hOut, msgVars, nameVars, handlerVars>>

NextHeader == HeaderMarshal \/ HeaderUnmarshal \/ HeaderUnmarshalApp

SpecHeader == InitHeader /\ [][NextHeader]_vars

\* C5: MessageHeader.MarshalBinary yields 12 bytes in the order id, flags,
\* QDCOUNT, ANCOUNT, NSCOUNT, ARCOUNT, each big-endian, and
\* MessageHeader.UnmarshalBinary of those bytes yields a header equal to the
\* original in all six fields.  (Violated by the UnmarshalBinary of
\* src/app/message.go, which assigns bytes 10-11 to ANCount.)
C5_HeaderRoundTrip ==
    /\ hdrBytes # None =>
          /\ Len(hdrBytes) = 12
          /\ hdrBytes[1] * 256 + hdrBytes[2] = h.Id
          /\ hdrBytes[3] * 256 + hdrBytes[4] = h.Flags
          /\ hdrBytes[5] * 256 + hdrBytes[6] = h.QDCount
          /\ hdrBytes[7] * 256 + hdrBytes[8] = h.ANCount
          /\ hdrBytes[9] * 256 + hdrBytes[10] = h.NSCount
          /\ hdrBytes[11] * 256 + hdrBytes[12] = h.ARCount
    /\ (hOut # None /\ hOut.n = 12) => (hOut.err = NoErr /\ hOut.h = h)
    /\ (hOutApp # None /\ hOutApp.n = 12) => (hOutApp.err = NoErr /\ hOutApp.h = h)

\* the Z field of the flags word in 12 encoded bytes: bits 4-6 of byte 3
EncodedZ(b) == (b[4] \div 16) % 8

\* C29: for every MessageHeader given to MessageHeader.MarshalBinary,
\* whatever its Flags, the reserved Z field (bits 4-6 of the flags word) is
\* 0 in the bytes written.
C29_ZIsZeroOnTheWire == hdrBytes # None => EncodedZ(hdrBytes) = 0

\* the bytes written carry the Z field of Flags as it is
ZIsWrittenAsIs == hdrBytes # None => EncodedZ(hdrBytes) = GetZ(h)

(***************************************************************************)
(* SpecFlags: one setter call on a header.                                 *)
(***************************************************************************)
\* The bits of each field alone, of all the other fields alone, and mixed words.
FlagWords ==
    {0, 65535, 32768, 32767, 30720, 34815, 1024, 64511, 512, 65023, 256, 65279,
     128, 65407, 112, 65423, 15, 65520, 43690, 21845, 4660}

Uint8Values == 0..255

InitFlags ==
    /\ pc = "flags"
    /\ h \in {[ZeroHeader EXCEPT !.Flags = f] : f \in FlagWords}
    /\ call = None /\ hdrBytes = None /\ hOut = None /\ hOutApp = None
    /\ IdleMessage /\ IdleName /\ IdleHandler

Called(name, arg, after) ==
    /\ pc = "flags"
    /\ pc' = "flags set"
    /\ call' = [name |-> name, arg |-> arg, before |-> h.Flags]
    /\ h' = after
    /\ UNCHANGED <<hdrBytes, hOut, hOutApp, msgVars, nameVars, handlerVars>>

CallSetQR == \E a \in Uint8Values : Called("QR", a, SetQR(h, a))
CallSetOpcode == \E a \in Uint8Values : Called("Opcode", a, SetOpcode(h, a))
CallSetAA == \E a \in Uint8Values : Called("AA", a, SetAA(h, a))
CallSetTC == \E a \in Uint8Values : Called("TC", a, SetTC(h, a))
CallSetRD == \E a \in Uint8Values : Called("RD", a, SetRD(h, a))
CallSetRA == \E a \in Uint8Values : Called("RA", a, SetRA(h, a))
CallSetZ == \E a \in Uint8Values : Called("Z", a, SetZ(h, a))
CallSetRcode == \E a \in Uint8Values : Called("Rcode", a, SetRcode(h, a))

NextFlags ==
    \/ CallSetQR \/ CallSetOpcode \/ CallSetAA \/ CallSetTC
    \/ CallSetRD \/ CallSetRA \/ CallSetZ \/ CallSetRcode

SpecFlags == InitFlags /\ [][NextFlags]_vars

FlagFields == {"QR", "Opcode", "AA", "TC", "RD", "RA", "Z", "Rcode"}

Getter(f, hh) ==
    CASE f = "QR" -> GetQR(hh)
      [] f = "Opcode" -> GetOpcode(hh)
      [] f = "AA" -> GetAA(hh)
      [] f = "TC" -> GetTC(hh)
      [] f = "RD" -> GetRD(hh)
      [] f = "RA" -> GetRA(hh)
      [] f = "Z" -> GetZ(hh)
      [] f = "Rcode" -> GetRcode(hh)

\* The lowest bit and the width of each field, as the claim lays them out.
FieldLow(f) ==
    CASE f = "QR" -> 15 [] f = "Opcode" -> 11 [] f = "AA" -> 10 [] f = "TC" -> 9
      [] f = "RD" -> 8 [] f = "RA" -> 7 [] f = "Z" -> 4 [] f = "Rcode" -> 0

FieldWidth(f) ==
    CASE f = "Opcode" -> 4 [] f = "Z" -> 3 [] f = "Rcode" -> 4 [] OTHER -> 1

\* bit k of the word w
Bit(w, k) == (w \div (2 ^ k)) % 2

\* C6: after any setter call with any 8-bit argument, every Flags bit outside
\* the field's range is unchanged, every other field's getter returns what it
\* returned before, and the field's own getter returns the argument truncated
\* to the field width.
C6_FlagIsolation ==
    call # None =>
        LET f == call.name
            before == [h EXCEPT !.Flags = call.before]
            inField(k) == k >= FieldLow(f) /\ k < FieldLow(f) + FieldWidth(f)
        IN  /\ h.Flags \in 0..65535
            /\ \A k \in 0..15 : ~inField(k) => Bit(h.Flags, k) = Bit(call.before, k)
            /\ \A g \in FlagFields \ {f} : Getter(g, h) = Getter(g, before)
            /\ Getter(f, h) = call.arg % (2 ^ FieldWidth(f))

\* a setter was called with an argument wider than its field and changed the word
C6_Witness ==
    /\ call # None
    /\ call.arg >= 2 ^ FieldWidth(call.name)
    /\ h.Flags # call.before

(***************************************************************************)
(* SpecMessage: Message.MarshalBinary, one loop iteration at a time, then  *)
(* Message.UnmarshalBinary on the bytes it returned.                       *)
(***************************************************************************)
MaxQuestions == 2
MaxAnswers == 2
MaxChain == 7

\* the label made of n bytes c
LabelOf(c, n) == [i \in 1..n |-> c]

\* "a", "b.a", "c.b.a", ...: each name extends the one before by a label
RECURSIVE Chain(_)
Chain(k) == IF k = 1 THEN <<97>> ELSE <<96 + k, Dot>> \o Chain(k - 1)

\* a name of 253 bytes: labels of 63, 63, 63 and 61 bytes
BigName == Join(<<LabelOf(120, 63), LabelOf(121, 63), LabelOf(122, 63), LabelOf(119, 61)>>)

\* "d"
NameD == <<100>>

Q(name, type, class) == [Name |-> name, Type |-> type, Class |-> class]
RR(name, type, class, ttl, rdata) ==
    [Name |-> name, Type |-> type, Class |-> class, TTL |-> ttl, RDLength |-> 0, RData |-> rdata]

QuestionSamples ==
    {Q(Chain(1), 1, 1), Q(Chain(2), 258, 1), Q(Chain(3), 1, 3), Q(BigName, 1, 1)}

AnswerSamples ==
    {RR(Chain(1), 1, 1, 60, <<8, 8, 8, 8>>), RR(Chain(2), 1, 1, 16909060, <<>>),
     RR(NameD, 5, 1, 60, <<1, 2>>), RR(BigName, 1, 1, 60, <<8, 8, 8, 8>>)}

SeqsUpTo(S, n) == UNION {[1..k -> S] : k \in 0..n}

\* the header of a message with nq questions and na answers
HeaderFor(id, flags, nq, na) ==
    [Id |-> id, Flags |-> flags, QDCount |-> nq, ANCount |-> na, NSCount |-> 0, ARCount |-> 0]

Msg(id, flags, qs, as) ==
    [Header |-> HeaderFor(id, flags, Len(qs), Len(as)), Questions |-> qs, Answers |-> as]

SmallMessages ==
    {Msg(4660, 256, qs, as) : qs \in SeqsUpTo(QuestionSamples, MaxQuestions),
                              as \in SeqsUpTo(AnswerSamples, MaxAnswers)}

\* questions "a", "b.a", ... (k of them), alone or each with its answer
ChainMessages ==
    {Msg(43981, 33152, [i \in 1..k |-> Q(Chain(i), 1, 1)],
         [i \in 1..(k * w) |-> RR(Chain(i), 1, 1, 60, <<8, 8, 8, 8>>)]) :
        k \in 1..MaxChain, w \in {0, 1}}

\* an answer with 2^14 bytes of RDATA, then the same name in two answers
BigMessages ==
    {Msg(4660, 256, <<>>,
         <<RR(Chain(1), 16, 1, 60, [i \in 1..16384 |-> 0]),
           RR(NameD, 1, 1, 60, <<8, 8, 8, 8>>),
           RR(NameD, 1, 1, 60, <<8, 8, 8, 8>>)>>)}

\* questions, and an answer, for the root name ""
RootMessages ==
    {Msg(4660, 256, [i \in 1..k |-> Q(<<>>, 2, 1)],
         [i \in 1..w |-> RR(<<>>, 2, 1, 60, <<1, 97, 0>>)]) : k \in 1..2, w \in {0, 1}}

\* messages whose Header counts are not the lengths of their sections
MiscountedMessages ==
    {[Header |-> HeaderFor(4660, 256, nq, na),
      Questions |-> <<Q(Chain(2), 1, 1)>>,
      Answers |-> [i \in 1..k |-> RR(Chain(2), 1, 1, 60, <<8, 8, 8, 8>>)]] :
        nq \in {0, 1, 5}, na \in {0, 3}, k \in 0..1}

\* a name of 254 bytes whose labels are 63 bytes or less, and "x...x.a" with
\* a label of 64 bytes
Name254 == Join(<<LabelOf(120, 63), LabelOf(121, 63), LabelOf(122, 63), LabelOf(119, 62)>>)
NameLabel64 == Join(<<LabelOf(120, 64), Chain(1)>>)

\* messages with such a name in a question or in an answer, first or after
\* an entry that encodes
OverlongMessages ==
    {Msg(4660, 256, [i \in 1..nq |-> Q(IF i = bad THEN n ELSE Chain(i), 1, 1)],
         [i \in 1..na |-> RR(IF nq + i = bad THEN n ELSE Chain(i), 1, 1, 60, <<8, 8, 8, 8>>)]) :
        n \in {Name254, NameLabel64}, nq \in 0..2, na \in 0..2, bad \in 1..4}

MessageInputs ==
    SmallMessages \cup ChainMessages \cup BigMessages \cup RootMessages \cup MiscountedMessages
    \cup OverlongMessages

InitMessage ==
    /\ pc = "message"
    /\ m \in MessageInputs
    /\ buf = <<>> /\ compressionMap = <<>> /\ idx = 0 /\ spans = <<>>
    /\ encErr = NoErr /\ mOut = None /\ marshalOut = None
    /\ IdleHeader /\ IdleName /\ IdleHandler

\* where MarshalBinary stands once its loops are at question / answer number i
AtQuestion(i) ==
    IF i <= Len(m.Questions) THEN "questions"
    ELSE IF Len(m.Answers) > 0 THEN "answers" ELSE "marshalled"

AtAnswer(i) == IF i <= Len(m.Answers) THEN "answers" ELSE "marshalled"

\* buf := new(bytes.Buffer); compressionMap := make(CompressionMap); the header.
\* MarshalBinary returns buf.Bytes() after the last entry, or nil with an error.
MarshalHeader ==
    /\ pc = "message"
    /\ buf' = MessageHeader_MarshalBinary(m.Header)
    /\ compressionMap' = <<>>
    /\ idx' = 1
    /\ pc' = AtQuestion(1)
    /\ marshalOut' = IF pc' = "marshalled" THEN buf' ELSE marshalOut
    /\ UNCHANGED <<m, spans, encErr, mOut, hdrVars, nameVars, handlerVars>>

\* the name field of the entry just encoded: [start, end) in the buffer
NameSpan(name) ==
    [name |-> name, start |-> Len(buf),
     end |-> Len(encodeDNSNameWithCompression(name, buf, compressionMap).buf)]

MarshalQuestionStep ==
    /\ pc = "questions"
    /\ LET e == MarshalQuestion(m.Questions[idx], buf, compressionMap) IN
       IF e.err # NoErr
       THEN /\ encErr' = e.err
            /\ marshalOut' = <<>>
            /\ pc' = "marshal failed"
            /\ UNCHANGED <<buf, compressionMap, idx, spans>>
       ELSE /\ buf' = e.buf
            /\ compressionMap' = e.cmap
            /\ spans' = Append(spans, NameSpan(m.Questions[idx].Name))
            /\ idx' = IF idx < Len(m.Questions) THEN idx + 1 ELSE 1
            /\ pc' = AtQuestion(idx + 1)
            /\ marshalOut' = IF pc' = "marshalled" THEN buf' ELSE marshalOut
            /\ UNCHANGED encErr
    /\ UNCHANGED <<m, mOut, hdrVars, nameVars, handlerVars>>

MarshalAnswerStep ==
    /\ pc = "answers"
    /\ LET e == MarshalAnswer(m.Answers[idx], buf, compressionMap) IN
       IF e.err # NoErr
       THEN /\ encErr' = e.err
            /\ marshalOut' = <<>>
            /\ pc' = "marshal failed"
            /\ UNCHANGED <<buf, compressionMap, idx, spans>>
       ELSE /\ buf' = e.buf
            /\ compressionMap' = e.cmap
            /\ spans' = Append(spans, NameSpan(m.Answers[idx].Name))
            /\ idx' = idx + 1
            /\ pc' = AtAnswer(idx + 1)
            /\ marshalOut' = IF pc' = "marshalled" THEN buf' ELSE marshalOut
            /\ UNCHANGED encErr
    /\ UNCHANGED <<m, mOut, hdrVars, nameVars, handlerVars>>

MessageUnmarshal ==
    /\ pc = "marshalled"
    /\ mOut' = Message_UnmarshalBinary(buf)
    /\ pc' = "unmarshalled"
    /\ UNCHANGED <<m, buf, compressionMap, idx, spans, encErr, marshalOut,
                   hdrVars, nameVars, handlerVars>>

NextMessage == MarshalHeader \/ MarshalQuestionStep \/ MarshalAnswerStep \/ MessageUnmarshal

SpecMessage == InitMessage /\ [][NextMessage]_vars

\* A name of non-empty labels of at most 63 bytes, at most 253 bytes long.
WellFormedName(name) ==
    /\ Len(name) >= 1
    /\ Len(name) <= 253
    /\ \A i \in 1..Len(Split(name)) : Len(Split(name)[i]) \in 1..63

\* the names of the entries, questions first
EntryNames(mm) ==
    [i \in 1..(Len(mm.Questions) + Len(mm.Answers)) |->
        IF i <= Len(mm.Questions) THEN mm.Questions[i].Name
        ELSE mm.Answers[i - Len(mm.Questions)].Name]

WellFormedMessage(mm) ==
    /\ mm.Header.QDCount = Len(mm.Questions)
    /\ mm.Header.ANCount = Len(mm.Answers)
    /\ \A i \in 1..Len(EntryNames(mm)) : WellFormedName(EntryNames(mm)[i])

\* C1: UnmarshalBinary(MarshalBinary(m)) of a well-formed Message succeeds
\* and yields the same header, the same questions in the same order and the
\* same answers in the same order, each answer's RDLength being len(RData).
C1_MessageRoundTrip ==
    WellFormedMessage(m) =>
        /\ pc # "marshal failed"
        /\ pc = "unmarshalled" =>
              /\ mOut.err = NoErr
              /\ mOut.msg.Header = m.Header
              /\ mOut.msg.Questions = m.Questions
              /\ mOut.msg.Answers =
                    [i \in 1..Len(m.Answers) |->
                        [m.Answers[i] EXCEPT !.RDLength = Len(m.Answers[i].RData)]]

\* the names have a non-empty trailing sequence of labels in common
SharesSuffix(n1, n2) ==
    LET l1 == Split(n1)
        l2 == Split(n2)
    IN  l1[Len(l1)] = l2[Len(l2)]

RECURSIVE SumLen(_, _)
SumLen(f, n) == IF n = 0 THEN 0 ELSE Len(f[n]) + SumLen(f, n - 1)

\* the 12-byte header plus every entry encoded on its own, without a shared table
IndependentSize(mm) ==
    12 + SumLen([i \in 1..Len(mm.Questions) |-> Question_MarshalBinary(mm.Questions[i]).bytes],
                Len(mm.Questions))
       + SumLen([i \in 1..Len(mm.Answers) |-> ResourceRecord_MarshalBinary(mm.Answers[i]).bytes],
                Len(mm.Answers))

\* C2: when two entries of a Message have names that share a non-empty
\* trailing sequence of labels, MarshalBinary's output is strictly shorter
\* than the header plus the entries encoded independently, and
\* UnmarshalBinary of the output returns both names exactly.
C2_SharedSuffixShorterAndExact ==
    (pc = "unmarshalled" /\ WellFormedMessage(m)) =>
        \A j \in 1..Len(EntryNames(m)) : \A i \in 1..(j - 1) :
            SharesSuffix(EntryNames(m)[i], EntryNames(m)[j]) =>
                /\ Len(buf) < IndependentSize(m)
                /\ mOut.err = NoErr
                /\ EntryNames(mOut.msg)[i] = EntryNames(m)[i]
                /\ EntryNames(mOut.msg)[j] = EntryNames(m)[j]

\* C15: the QDCOUNT and ANCOUNT bytes that Message.MarshalBinary writes are
\* the number of questions and the number of answers it has serialized,
\* whatever the Header's QDCount and ANCount fields hold.
C15_CountsFromSections ==
    pc \in {"marshalled", "unmarshalled"} =>
        /\ Len(spans) = Len(m.Questions) + Len(m.Answers)
        /\ buf[5] * 256 + buf[6] = Len(m.Questions)
        /\ buf[7] * 256 + buf[8] = Len(m.Answers)

\* C19: every name field of a message that Message.MarshalBinary has encoded
\* decodes with decodeDNSName without the too-many-jumps error, no invocation
\* of the decoder being entered with more than MaxCompressionJumps jumps, and
\* Message.UnmarshalBinary of the output does not fail with that error.
C19_ChainsWithinJumpBound ==
    /\ pc \in {"marshalled", "unmarshalled"} =>
          \A j \in 1..Len(spans) :
              LET r == decodeDNSName(buf, spans[j].start) IN
              /\ r.err # "too many compression jumps"
              /\ r.depth <= MaxCompressionJumps
    /\ pc = "unmarshalled" => mOut.err # "too many compression jumps"

\* labels[i..] joined with dots
SuffixAt(labels, i) == Join(SubSeq(labels, i, Len(labels)))

\* the first n labels written literally: length byte and bytes of each
\* non-empty label
RECURSIVE LiteralLabels(_, _)
LiteralLabels(labels, n) ==
    IF n = 0 THEN <<>>
    ELSE LiteralLabels(labels, n - 1)
         \o (IF Len(labels[n]) > 0 THEN <<Len(labels[n])>> \o labels[n] ELSE <<>>)

\* the labels of name whose suffix is in table cm
PresentSuffixes(name, cm) ==
    {i \in 1..Len(Split(name)) : SuffixAt(Split(name), i) \in DOMAIN cm}

\* the number of labels to the left of the longest suffix of name present in
\* cm: all the labels when none is present
LeftOfLongest(name, cm) ==
    IF PresentSuffixes(name, cm) = {} THEN Len(Split(name))
    ELSE (CHOOSE i \in PresentSuffixes(name, cm) :
              \A k \in PresentSuffixes(name, cm) : i <= k) - 1

\* the name field expected at the end of buffer b with table cm: the labels
\* left of the longest suffix present, then the pointer made of that
\* suffix's entry, or the zero byte when no suffix is present
ExpectedNameField(name, cm) ==
    LET labels == Split(name)
        n == LeftOfLongest(name, cm)
    IN  LiteralLabels(labels, n)
        \o (IF n = Len(labels) THEN <<0>>
            ELSE LET o == cm[SuffixAt(labels, n + 1)] % 16384
                 IN  <<192 + o \div 256, o % 256>>)

\* the table expected after the name is encoded at the end of b: the entries
\* of cm as they were, and for each non-empty suffix that begins with a label
\* written literally, the offset where that label begins
ExpectedTable(name, b, cm) ==
    LET labels == Split(name)
        n == LeftOfLongest(name, cm)
        new == {i \in 1..n : SuffixAt(labels, i) # <<>>}
        at(s) == CHOOSE i \in new : SuffixAt(labels, i) = s
    IN  [s \in (DOMAIN cm) \cup {SuffixAt(labels, i) : i \in new} |->
            IF s \in DOMAIN cm THEN cm[s]
            ELSE Len(b) + Len(LiteralLabels(labels, at(s) - 1))]

\* the name MarshalBinary's loop is about to encode
CurrentName == IF pc = "questions" THEN m.Questions[idx].Name ELSE m.Answers[idx].Name

\* one iteration of MarshalBinary's loops that has encoded its entry
EncodedOneEntry == pc \in {"questions", "answers"} /\ pc' # "marshal failed" /\ buf' # buf

\* the bytes the iteration has added to the buffer begin with the expected
\* name field, and it leaves the expected table
EncodeStepAsExpected ==
    EncodedOneEntry =>
        LET field == ExpectedNameField(CurrentName, compressionMap) IN
        /\ SubSeq(buf', 1, Len(buf)) = buf
        /\ SubSeq(buf', Len(buf) + 1, Len(buf) + Len(field)) = field
        /\ compressionMap' = ExpectedTable(CurrentName, buf, compressionMap)
        /\ \A s \in DOMAIN compressionMap :
              s \in DOMAIN compressionMap' /\ compressionMap'[s] = compressionMap[s]

\* the first entry encoded so far whose name ends with suffix s
FirstWith(s) ==
    CHOOSE j \in 1..Len(spans) :
        /\ \E i \in 1..Len(Split(spans[j].name)) : SuffixAt(Split(spans[j].name), i) = s
        /\ \A k \in 1..(j - 1) :
              \A i \in 1..Len(Split(spans[k].name)) : SuffixAt(Split(spans[k].name), i) # s

\* every entry of the table is the offset, inside the name field of the
\* first entry whose name ends with the suffix, where the labels of the
\* suffix are written
TableIsFirstOccurrence ==
    pc \in {"questions", "answers", "marshalled"} =>
        \A s \in DOMAIN compressionMap :
            LET o == compressionMap[s]
                j == FirstWith(s)
                labels == Split(s)
            IN  /\ s # <<>>
                /\ spans[j].start <= o /\ o < spans[j].end
                /\ o + Len(s) - Len(spans[j].name) = spans[j].start
                /\ buf[o + 1] = Len(labels[1])
                /\ SubSeq(buf, o + 2, o + 1 + Len(labels[1])) = labels[1]

\* C20: during one Message.MarshalBinary, every table entry is the offset
\* where its suffix was first written as labels; encoding one more name
\* leaves every entry as it was, adds an entry for each suffix whose first
\* label it writes, and writes the labels to the left of the name's longest
\* suffix present in the table followed by the pointer made of that suffix's
\* entry (its low 14 bits), or all the labels and a zero byte when no suffix
\* is present.
C20_TableSetOnceLongestSuffix == [][EncodeStepAsExpected]_vars /\ []TableIsFirstOccurrence

\* C20 witness: a name of three labels has been encoded as its first label
\* and a pointer to its two-label parent, which is in the table along with
\* the one-label grandparent
C20_Witness ==
    \E j \in 2..Len(spans) :
        LET labels == Split(spans[j].name) IN
        /\ Len(labels) = 3
        /\ spans[j].end - spans[j].start = Len(labels[1]) + 3
        /\ SuffixAt(labels, 2) \in DOMAIN compressionMap
        /\ SuffixAt(labels, 3) \in DOMAIN compressionMap
        /\ buf[spans[j].end - 1] * 256 + buf[spans[j].end]
              = 49152 + compressionMap[SuffixAt(labels, 2)]
        /\ compressionMap[SuffixAt(labels, 1)] = spans[j].start

\* C21: every compression pointer that Message.MarshalBinary has written
\* carries the offset recorded in the table for the suffix it stands for
\* (the suffix left after the labels written before it); that offset is at
\* least 12, at most 0x3FFF and smaller than the offset of the pointer.
C21_PointersAreRecordedOffsets ==
    \A j \in 1..Len(spans) :
        LET labels == Split(spans[j].name) IN
        \A n \in 0..(Len(labels) - 1) :
            spans[j].end - spans[j].start = Len(LiteralLabels(labels, n)) + 2 =>
                LET s == SuffixAt(labels, n + 1)
                    p == spans[j].end - 2
                    v == (buf[p + 1] - 192) * 256 + buf[p + 2]
                IN  /\ s \in DOMAIN compressionMap
                    /\ v = compressionMap[s]
                    /\ DNSHeaderSize <= compressionMap[s]
                    /\ compressionMap[s] <= CompressionOffset
                    /\ compressionMap[s] < p

\* entry j of the entries encoded so far repeats the name first seen in entry i
FirstOf(i, j) ==
    /\ i < j
    /\ spans[i].name = spans[j].name
    /\ \A k \in 1..(i - 1) : spans[k].name # spans[j].name

\* Where the labels of entry i's name begin: at the entry's name field, or,
\* when that field is itself only a pointer, where that pointer says.
FirstLabelOffset(i) ==
    IF buf[spans[i].start + 1] < 192
    THEN spans[i].start
    ELSE (buf[spans[i].start + 1] * 256 + buf[spans[i].start + 2]) % 16384

\* C3 as stated: a name identical to a name written earlier in the message is
\* encoded as exactly two bytes, 0xC000 OR-ed with the offset at which the
\* earlier name's first label begins, with no labels and no zero byte.
C3_RepeatedNameIsPointer ==
    \A j \in 1..Len(spans) : \A i \in 1..(j - 1) :
        FirstOf(i, j) =>
            /\ spans[j].end - spans[j].start = 2
            /\ buf[spans[j].start + 1] * 256 + buf[spans[j].start + 2]
                  = BitOr(49152, FirstLabelOffset(i))

\* C3 amended: a non-empty name identical to a name written earlier is
\* encoded as exactly two bytes, 0xC000 OR-ed with the low 14 bits of the
\* offset at which the earlier name's first label begins (12 when that is the
\* first question); an empty name is the single byte 0 every time.
C3_RepeatedNonEmptyNameIsPointer ==
    \A j \in 1..Len(spans) : \A i \in 1..(j - 1) :
        FirstOf(i, j) =>
            IF spans[j].name = <<>>
            THEN /\ spans[j].end - spans[j].start = 1
                 /\ buf[spans[j].start + 1] = 0
            ELSE /\ spans[j].end - spans[j].start = 2
                 /\ buf[spans[j].start + 1] * 256 + buf[spans[j].start + 2]
                       = BitOr(49152, FirstLabelOffset(i) % 16384)
                 /\ (i = 1 /\ Len(m.Questions) > 0) => FirstLabelOffset(i) = 12

\* an answer repeats the non-empty name of the first question and has been encoded
C3_Witness ==
    /\ Len(m.Questions) > 0
    /\ \E j \in 2..Len(spans) :
          /\ j > Len(m.Questions)
          /\ FirstOf(1, j)
          /\ spans[j].name # <<>>
          /\ buf[spans[1].start + 1] < 192

(***************************************************************************)
(* SpecName: decodeDNSName on a buffer, from an offset.                    *)
(***************************************************************************)
MaxBufLen == 5

\* the terminator / offset 0, label lengths (and offsets) 1 and 2, a length
\* over 63, and the pointer tag 0xC0
ByteSamples == {0, 1, 2, 64, 192}

SmallBuffers == UNION {[1..n -> ByteSamples] : n \in 1..MaxBufLen}

\* n labels of 63 bytes, then a pointer back to offset 0
LabelsThenPointerBack(n) ==
    [i \in 1..(64 * n + 2) |->
        IF i = 64 * n + 1 THEN 192
        ELSE IF i = 64 * n + 2 THEN 0
        ELSE IF i % 64 = 1 THEN 63 ELSE 97]

LongBuffers == {LabelsThenPointerBack(n) : n \in 3..4}

\* a name of 3 labels of 63 bytes at offset 0, then at offset 193 a label of
\* 63 bytes and a pointer to offset 0
PointerIntoLongName ==
    [i \in 1..192 |-> IF i % 64 = 1 THEN 63 ELSE 97] \o <<0>>
    \o <<63>> \o LabelOf(98, 63) \o <<192, 0>>

MaxPointers == 7

\* Chains of pointers: the name "a" at offset 0, then hop 1 pointing to it,
\* hop 2 pointing to hop 1, and so on.  A hop is a pointer alone (w = 0) or a
\* one-byte label and a pointer (w = 1).  HopOffset(i, w) is where hop i
\* begins, the name at offset 0 being hop 0.
HopOffset(i, w) == IF i = 0 THEN 0 ELSE 3 + (2 + 2 * w) * (i - 1)

RECURSIVE PointerChain(_, _)
PointerChain(k, w) ==
    IF k = 0 THEN <<1, 97, 0>>
    ELSE PointerChain(k - 1, w)
         \o (IF w = 1 THEN <<1, 97 + k>> ELSE <<>>) \o <<192, HopOffset(k - 1, w)>>

InitName ==
    /\ pc = "name"
    /\ \/ data \in SmallBuffers /\ offset \in 0..Len(data)
       \/ data \in LongBuffers /\ offset = 0
       \/ data = PointerIntoLongName /\ offset \in {0, 193}
       \/ \E w \in {0, 1} : /\ data = PointerChain(MaxPointers, w)
                            /\ offset \in {HopOffset(i, w) : i \in 0..MaxPointers}
    /\ decoded = None
    /\ frames = <<>> /\ ret = None /\ work = None /\ steps = 0
    /\ IdleHeader /\ IdleMessage /\ IdleHandler

DecodeName ==
    /\ pc = "name"
    /\ decoded' = decodeDNSName(data, offset)
    /\ pc' = "name decoded"
    /\ UNCHANGED <<data, offset, frames, ret, work, steps, hdrVars, msgVars, handlerVars>>

NextName == DecodeName

SpecName == InitName /\ [][NextName]_vars

\* Reading the name at offset i by the wire format alone: labels are skipped,
\* pointers are followed.  starts are the offsets reading has started at (the
\* first offset and every pointer target), run the label bytes (length bytes
\* included) read since the last start, long whether some run has gone over
\* 253.
RECURSIVE Walk(_, _, _, _, _)
Walk(d, i, starts, run, long) ==
    IF i >= Len(d) THEN [end |-> "malformed", long |-> long]
    ELSE LET b == d[i + 1] IN
         IF b >= 192
         THEN IF i + 1 >= Len(d) THEN [end |-> "malformed", long |-> long]
              ELSE LET target == (b * 256 + d[i + 2]) % 16384 IN
                   IF target \in starts THEN [end |-> "cycle", long |-> long]
                   ELSE Walk(d, target, starts \cup {target}, 0, long)
         ELSE IF b = 0 THEN [end |-> "name", long |-> long]
         ELSE IF b > 63 \/ i + 1 + b > Len(d) THEN [end |-> "malformed", long |-> long]
         ELSE Walk(d, i + 1 + b, starts, run + b + 1, long \/ run + b + 1 > 253)

\* following the name at off comes back to an offset already visited
Cyclic(d, off) == Walk(d, off, {off}, 0, FALSE).end = "cycle"

\* C4 as stated: on a buffer in which following compression pointers from the
\* start offset comes back to an offset already visited, decodeDNSName
\* returns the "too many compression jumps" error, never a name, and never
\* recurses more than MaxCompressionJumps+1 times.
C4_CycleIsJumpError ==
    (pc = "name decoded" /\ Cyclic(data, offset)) =>
        /\ decoded.err = "too many compression jumps"
        /\ decoded.name = <<>>
        /\ decoded.depth <= MaxCompressionJumps + 1

\* C4 amended: on such a buffer decodeDNSName returns an error and never a
\* name, and never recurses more than MaxCompressionJumps+1 times; the error
\* is "too many compression jumps", except that it is "domain name too long"
\* when more than 253 bytes of labels are read between two pointers before
\* the jump bound is reached.
C4_CycleIsError ==
    (pc = "name decoded" /\ Cyclic(data, offset)) =>
        /\ decoded.err \in {"too many compression jumps", "domain name too long"}
        /\ decoded.err = "domain name too long" => Walk(data, offset, {offset}, 0, FALSE).long
        /\ decoded.name = <<>>
        /\ decoded.next = 0
        /\ decoded.depth <= MaxCompressionJumps + 1

\* a cycle that passes through a label has been decoded and hit the jump bound
C4_Witness ==
    /\ pc = "name decoded"
    /\ Cyclic(data, offset)
    /\ data[offset + 1] \in 1..63
    /\ decoded.err = "too many compression jumps"
    /\ decoded.depth = MaxCompressionJumps + 1

\* The length of the name at offset i read by the wire format alone: every
\* label counts its bytes and its length byte, the labels reached through
\* pointers included; -1 when there is no name there (the bytes run out, a
\* length byte is over 63, or a pointer leads back to an offset in seen).
RECURSIVE WireNameLength(_, _, _)
WireNameLength(d, i, seen) ==
    IF i >= Len(d) \/ i \in seen THEN -1
    ELSE LET b == d[i + 1] IN
         IF b >= 192
         THEN IF i + 1 >= Len(d) THEN -1
              ELSE WireNameLength(d, (b * 256 + d[i + 2]) % 16384, seen \cup {i})
         ELSE IF b = 0 THEN 0
         ELSE IF b > 63 \/ i + 1 + b > Len(d) THEN -1
         ELSE LET rest == WireNameLength(d, i + 1 + b, seen \cup {i}) IN
              IF rest < 0 THEN -1 ELSE b + 1 + rest

\* C13: decodeDNSName never returns a name whose accumulated length, the
\* labels reached through compression pointers included, exceeds 253 bytes:
\* every such name fails with "domain name too long".
C13_LongNameRejected ==
    pc = "name decoded" =>
        LET n == WireNameLength(data, offset, {}) IN
        /\ decoded.err = NoErr => n <= 253
        /\ n > 253 => decoded.err = "domain name too long"

\* The number of pointers followed to read the name at offset i by the wire
\* format alone; -1 when there is no name there (the bytes run out, a length
\* byte is over 63, a pointer leads back to an offset of starts).
RECURSIVE PointersFollowed(_, _, _)
PointersFollowed(d, i, starts) ==
    IF i >= Len(d) THEN -1
    ELSE LET b == d[i + 1] IN
         IF b >= 192
         THEN IF i + 1 >= Len(d) THEN -1
              ELSE LET target == (b * 256 + d[i + 2]) % 16384 IN
                   IF target \in starts THEN -1
                   ELSE LET rest == PointersFollowed(d, target, starts \cup {target}) IN
                        IF rest < 0 THEN -1 ELSE 1 + rest
         ELSE IF b = 0 THEN 0
         ELSE IF b > 63 \/ i + 1 + b > Len(d) THEN -1
         ELSE PointersFollowed(d, i + 1 + b, starts)

\* the offset after the name's own encoding at i: one past the zero byte, or
\* two past the first pointer met, pointers not being followed; -1 when the
\* bytes run out first
RECURSIVE OwnEnd(_, _)
OwnEnd(d, i) ==
    IF i >= Len(d) THEN -1
    ELSE IF d[i + 1] = 0 THEN i + 1
    ELSE IF d[i + 1] >= 192 THEN (IF i + 2 <= Len(d) THEN i + 2 ELSE -1)
    ELSE OwnEnd(d, i + 1 + d[i + 1])

\* C23: when decodeDNSName(data, offset) succeeds, the next offset it returns
\* is the position after the name's own encoding at offset: one past the
\* zero byte when no pointer is met, two past the first pointer met
\* otherwise, whatever is read at the pointer's target.
C23_NextIsAfterOwnEncoding ==
    (pc = "name decoded" /\ decoded.err = NoErr) =>
        /\ decoded.next = OwnEnd(data, offset)
        /\ offset < decoded.next /\ decoded.next <= Len(data)

\* C23 witness: a label and a pointer have been decoded, the target holding
\* a label and a further pointer, and lying before the name
C23_Witness ==
    /\ pc = "name decoded" /\ decoded.err = NoErr
    /\ data[offset + 1] = 1 /\ data[offset + 3] = 192
    /\ decoded.depth >= 2
    /\ decoded.next = offset + 4
    /\ decoded.next < Len(data)

\* C22: on a name that is read by following k successive pointers, acyclic
\* and in range, to labels of at most 63 bytes (no more than 253 bytes of
\* them between two pointers), decodeDNSName succeeds when k is 0 to 5 and
\* fails with the "too many compression jumps" error when k is more than 5.
C22_FivePointersAtMost ==
    pc = "name decoded" =>
        LET k == PointersFollowed(data, offset, {offset}) IN
        (k >= 0 /\ ~Walk(data, offset, {offset}, 0, FALSE).long) =>
            /\ k <= MaxCompressionJumps => (decoded.err = NoErr /\ decoded.depth = k)
            /\ k > MaxCompressionJumps => decoded.err = "too many compression jumps"

\* C22 witness: a name read through exactly MaxCompressionJumps pointers, a
\* label before each, has been decoded
C22_Witness ==
    /\ pc = "name decoded"
    /\ PointersFollowed(data, offset, {offset}) = MaxCompressionJumps
    /\ data[offset + 1] \in 1..63
    /\ decoded.err = NoErr
    /\ Len(Split(decoded.name)) = MaxCompressionJumps + 1

(***************************************************************************)
(* SpecHandle: DNSHandler.Handle on a request datagram, stage by stage,    *)
(* then handleDNSRequest of src/app/main.go on the same datagram.          *)
(***************************************************************************)
\* labels on the wire: each a length byte and its bytes, then the zero byte
RECURSIVE WireLabels(_)
WireLabels(labels) ==
    IF Len(labels) = 0 THEN <<0>>
    ELSE <<Len(labels[1])>> \o labels[1] \o WireLabels(Tail(labels))

\* a question on the wire: the name field as given, type, class
WireQuestion(nameField, type, class) ==
    nameField \o <<type \div 256, type % 256, class \div 256, class % 256>>

WireQuestions ==
    { WireQuestion(WireLabels(Split(NameStackoverflowCom)), 1, 1),
      WireQuestion(WireLabels(Split(NameMailExampleCom)), 28, 3),
      WireQuestion(WireLabels(<<NameStackoverflowCom>>), 1, 1),  \* one label of 17 bytes
      WireQuestion(WireLabels(<<<<97>>>>), 1, 1),                \* "a"
      WireQuestion(WireLabels(<<<<97, Dot>>>>), 1, 1),           \* the label "a."
      WireQuestion(<<0>>, 2, 1),                                 \* the root name
      WireQuestion(<<192, 12>>, 1, 1) }                          \* a pointer to offset 12

\* id, flags, ANCOUNT, NSCOUNT, ARCOUNT of a request
RequestHeaders ==
    { <<4660, 256, 0, 0, 0>>, <<4660, 0, 0, 0, 0>>,
      <<43981, 65535, 3, 258, 1>>, <<43981, 10368, 0, 0, 1>> }

RECURSIVE Concat(_)
Concat(ss) == IF Len(ss) = 0 THEN <<>> ELSE ss[1] \o Concat(Tail(ss))

\* the request with header hd declaring qd questions, followed by the questions qs
WireRequest(hd, qd, qs) ==
    <<hd[1] \div 256, hd[1] % 256, hd[2] \div 256, hd[2] % 256, qd \div 256, qd % 256,
      hd[3] \div 256, hd[3] % 256, hd[4] \div 256, hd[4] % 256, hd[5] \div 256, hd[5] % 256>>
    \o Concat(qs)

\* a question of 3 labels of 63 bytes, then one of a 63-byte label and a
\* pointer to the first: the second name is 255 bytes long
LongNameRequest ==
    WireRequest(<<4660, 256, 0, 0, 0>>, 2,
        << WireQuestion(WireLabels(<<LabelOf(120, 63), LabelOf(121, 63), LabelOf(122, 63)>>), 1, 1),
           WireQuestion(<<63>> \o LabelOf(119, 63) \o <<192, 12>>, 1, 1) >>)

\* whole requests, requests that declare one question more or less than they
\* carry, and requests cut short
Requests ==
    UNION { { SubSeq(WireRequest(hd, Len(qs) + dq, qs), 1, DNSHeaderSize + Len(Concat(qs)) - cut) :
                hd \in RequestHeaders, dq \in {d \in {-1, 0, 1} : Len(qs) + d >= 0},
                cut \in {0, 1, 2} } :
            qs \in SeqsUpTo(WireQuestions, MaxQuestions) }
    \cup {LongNameRequest}

InitHandle ==
    /\ pc = "received"
    /\ requestData \in Requests
    /\ request = None /\ allAnswers = <<>> /\ response = None
    /\ respBytes = None /\ handleErr = NoErr /\ appResp = None /\ handlers = <<>>
    /\ udpConn = None /\ source = None
    /\ IdleHeader /\ IdleName
    /\ m = None /\ buf = <<>> /\ compressionMap = <<>> /\ idx = 0 /\ spans = <<>>
    /\ encErr = NoErr /\ mOut = None /\ marshalOut = None

\* Step 1 of Handle: h.parseRequest()
HandleParse ==
    /\ pc = "received"
    /\ LET p == parseRequest(requestData) IN
       IF p.err # NoErr
       THEN /\ handleErr' = p.err
            /\ respBytes' = <<>>
            /\ pc' = "failed"
            /\ UNCHANGED <<request, idx>>
       ELSE /\ request' = p.request
            /\ idx' = 1
            /\ pc' = "forwarding"
            /\ UNCHANGED <<handleErr, respBytes>>
    /\ UNCHANGED <<requestData, allAnswers, response, appResp, handlers, udpConn, source, hdrVars, nameVars,
                   m, buf, compressionMap, spans, encErr, mOut, marshalOut>>

\* Step 2 of Handle, one iteration: forward question idx and collect its answers
HandleForward ==
    /\ pc = "forwarding"
    /\ idx <= Len(request.Questions)
    /\ allAnswers' = allAnswers \o forward(request.Questions[idx])
    /\ idx' = idx + 1
    /\ UNCHANGED <<pc, requestData, request, response, respBytes, handleErr, appResp, handlers, udpConn, source,
                   hdrVars, nameVars, m, buf, compressionMap, spans, encErr, mOut, marshalOut>>

\* Step 3 of Handle: build the response
HandleBuild ==
    /\ pc = "forwarding"
    /\ idx > Len(request.Questions)
    /\ response' = [Header |-> buildResponseHeader(request, allAnswers),
                    Questions |-> request.Questions,
                    Answers |-> allAnswers]
    /\ pc' = "built"
    /\ UNCHANGED <<requestData, request, allAnswers, respBytes, handleErr, appResp, handlers, udpConn, source,
                   hdrVars, nameVars, msgVars>>

\* Step 4 of Handle: marshal the response
HandleMarshal ==
    /\ pc = "built"
    /\ LET mb == Message_MarshalBinary(response) IN
       IF mb.err # NoErr
       THEN /\ handleErr' = mb.err
            /\ respBytes' = <<>>
            /\ pc' = "failed"
       ELSE /\ respBytes' = mb.bytes
            /\ pc' = "encoded"
            /\ UNCHANGED handleErr
    /\ UNCHANGED <<requestData, request, allAnswers, response, appResp, handlers, udpConn, source,
                   hdrVars, nameVars, msgVars>>

\* handleDNSRequest of src/app/main.go on the same datagram
AppHandle ==
    /\ pc \in {"encoded", "failed"}
    /\ appResp = None
    /\ appResp' = handleDNSRequest(requestData)
    /\ UNCHANGED <<pc, requestData, request, allAnswers, response, respBytes, handleErr, handlers, udpConn, source,
                   hdrVars, nameVars, msgVars>>

NextHandle == HandleParse \/ HandleForward \/ HandleBuild \/ HandleMarshal \/ AppHandle

SpecHandle == InitHandle /\ [][NextHandle]_vars

(***************************************************************************)
(* Properties of SpecHandle.  The response is read on the wire: Word reads *)
(* a 16-bit field, SkipName steps over a name field without following      *)
(* pointers, SectionsEnd steps over the entries the header announces.      *)
(***************************************************************************)
\* the 16-bit field whose first byte is byte i (from 0) of b
Word(b, i) == b[i + 1] * 256 + b[i + 2]

\* the offset after the name field at off: labels up to the zero byte or up
\* to a 2-byte pointer; -1 when the field runs off the end
RECURSIVE SkipName(_, _)
SkipName(b, off) ==
    IF off < 0 \/ off >= Len(b) THEN -1
    ELSE IF b[off + 1] = 0 THEN off + 1
    ELSE IF b[off + 1] >= 192 THEN (IF off + 2 <= Len(b) THEN off + 2 ELSE -1)
    ELSE SkipName(b, off + 1 + b[off + 1])

\* the offset after nq questions and na answers that start at off
RECURSIVE SectionsEnd(_, _, _, _)
SectionsEnd(b, off, nq, na) ==
    LET e == SkipName(b, off) IN
    IF nq = 0 /\ na = 0 THEN off
    ELSE IF e < 0 THEN -1
    ELSE IF nq > 0
    THEN (IF e + 4 <= Len(b) THEN SectionsEnd(b, e + 4, nq - 1, na) ELSE -1)
    ELSE IF e + 10 <= Len(b)
    THEN SectionsEnd(b, e + 10 + Word(b, e + 8), nq, na - 1)
    ELSE -1

\* the counts of a response resp to the request req, built from the message msg
CountsAgree(req, resp, msg) ==
    /\ Word(resp, 4) = Word(req, 4)
    /\ Word(resp, 4) = Len(msg.Questions)
    /\ Word(resp, 6) = Len(msg.Answers)
    /\ Word(resp, 6) = Word(resp, 4)
    /\ SectionsEnd(resp, DNSHeaderSize, Word(resp, 4), Word(resp, 6)) = Len(resp)

AppSucceeded == appResp # None /\ appResp.err = NoErr

\* C7: whenever Handle succeeds (and whenever handleDNSRequest does), the
\* response header's QDCOUNT is the request's QDCOUNT and the number of
\* questions written to the response, its ANCOUNT is the number of answers
\* written to the response, and ANCOUNT equals QDCOUNT: the entries the two
\* counts announce fill the response exactly.
C7_CountsMatchSections ==
    /\ pc = "encoded" => CountsAgree(requestData, respBytes, response)
    /\ AppSucceeded => CountsAgree(requestData, appResp.bytes, appResp.response)

\* C7 witness: a request of two questions answered by Handle and by handleDNSRequest
C7_Witness ==
    /\ pc = "encoded" /\ AppSucceeded
    /\ Word(requestData, 4) = 2
    /\ Word(respBytes, 6) = 2

\* C8: every successful Handle response decodes to the request's questions
\* in the same order (name, type, class), and its i-th answer carries the
\* i-th question's name, type A, the i-th question's class and TTL 60.
C8_QuestionsEchoedAnswersMatch ==
    pc = "encoded" =>
        LET dec == Message_UnmarshalBinary(respBytes) IN
        /\ dec.err = NoErr
        /\ dec.msg.Questions = request.Questions
        /\ Len(dec.msg.Answers) = Len(request.Questions)
        /\ \A i \in 1..Len(request.Questions) :
              /\ dec.msg.Answers[i].Name = request.Questions[i].Name
              /\ dec.msg.Answers[i].Type = 1
              /\ dec.msg.Answers[i].Class = request.Questions[i].Class
              /\ dec.msg.Answers[i].TTL = 60

\* the address the record table maps name to, 8.8.8.8 when it maps none
ExpectedAddress(name) ==
    IF name \in DOMAIN mockDNSRecords THEN mockDNSRecords[name] ELSE <<8, 8, 8, 8>>

\* C9: Handle produces exactly one answer per question, in the questions'
\* order, whose rdata (in the response message and on the wire) is the
\* 4-byte address the record table maps the question's name to, or 8.8.8.8
\* when the table has no mapping; and a request that was parsed fails only
\* when a name is too long to encode, never because of a miss.
C9_AnswerIsTableAddressOrDefault ==
    /\ pc \in {"built", "encoded"} =>
          /\ Len(response.Answers) = Len(request.Questions)
          /\ \A i \in 1..Len(request.Questions) :
                /\ response.Answers[i].RData = ExpectedAddress(request.Questions[i].Name)
                /\ Len(response.Answers[i].RData) = 4
    /\ pc = "encoded" =>
          LET dec == Message_UnmarshalBinary(respBytes) IN
          /\ dec.err = NoErr
          /\ Len(dec.msg.Answers) = Len(request.Questions)
          /\ \A i \in 1..Len(request.Questions) :
                /\ dec.msg.Answers[i].RDLength = 4
                /\ dec.msg.Answers[i].RData = ExpectedAddress(request.Questions[i].Name)
    /\ pc = "forwarding" =>
          /\ Len(allAnswers) = idx - 1
          /\ \A i \in 1..Len(allAnswers) :
                allAnswers[i].RData = ExpectedAddress(request.Questions[i].Name)
    /\ (pc = "failed" /\ request # None) =>
          \E i \in 1..Len(request.Questions) : Len(request.Questions[i].Name) > MaxDomainLength

\* C9 witness: a response to two questions, the first in the table, the second not
C9_Witness ==
    /\ pc = "encoded"
    /\ Len(request.Questions) = 2
    /\ request.Questions[1].Name \in DOMAIN mockDNSRecords
    /\ request.Questions[2].Name \notin DOMAIN mockDNSRecords
    /\ response.Answers[1].RData = mockDNSRecords[request.Questions[1].Name]
    /\ response.Answers[2].RData = <<8, 8, 8, 8>>

\* the header of the response resp against the header of the request req
HeaderPolicy(req, resp) ==
    LET reqFlags == Word(req, 2)
        flags == Word(resp, 2)
        reqOpcode == (reqFlags \div 2048) % 16
    IN  /\ Word(resp, 0) = Word(req, 0)
        /\ Bit(flags, 15) = 1
        /\ (flags \div 2048) % 16 = reqOpcode
        /\ Bit(flags, 8) = Bit(reqFlags, 8)
        /\ Bit(flags, 10) = 0 /\ Bit(flags, 9) = 0 /\ Bit(flags, 7) = 0
        /\ (flags \div 16) % 8 = 0
        /\ Word(resp, 8) = 0 /\ Word(resp, 10) = 0
        /\ flags % 16 = (IF reqOpcode = 0 THEN 0 ELSE 4)

\* C10: the header of every response Handle (and handleDNSRequest) returns
\* has the request's id, QR = 1, the request's Opcode and RD, AA = TC = RA =
\* Z = 0 whatever the request's bits were, NSCOUNT = ARCOUNT = 0, and RCODE
\* 0 when the request's Opcode is 0, RCODE 4 for every other Opcode.
C10_ResponseHeaderPolicy ==
    /\ pc \in {"built", "encoded"} =>
          HeaderPolicy(requestData, MessageHeader_MarshalBinary(response.Header))
    /\ pc = "encoded" => HeaderPolicy(requestData, respBytes)
    /\ AppSucceeded => HeaderPolicy(requestData, appResp.bytes)

\* C10 witness: a response to a request whose flag bits are all set
\* (Opcode 15) and whose NSCOUNT and ARCOUNT are not zero
C10_Witness ==
    /\ pc = "encoded"
    /\ Word(requestData, 2) = 65535
    /\ Word(requestData, 8) # 0 /\ Word(requestData, 10) # 0
    /\ Len(request.Questions) >= 1
    /\ Word(respBytes, 2) = 63748

\* the request is shorter than a header, or one of the questions its header
\* announces does not decode
RequestMalformed(d) ==
    \/ Len(d) < 12
    \/ ParseQuestions(d, 12, 1, Word(d, 4), <<>>).err # NoErr

\* C11: Handle returns either a complete encoded response and no error, or
\* no bytes and an error.  When the request is shorter than 12 bytes or one
\* of the QDCOUNT questions it announces fails to decode, Handle returns no
\* bytes and an error, having forwarded no question and built no response;
\* a response it returns holds all the announced questions and one answer
\* for each.
C11_AllOrNothing ==
    /\ pc \in {"received", "forwarding", "built"} => (respBytes = None /\ handleErr = NoErr)
    /\ pc = "failed" => (respBytes = <<>> /\ handleErr # NoErr)
    /\ pc = "encoded" =>
          /\ handleErr = NoErr
          /\ Len(respBytes) >= 12
          /\ Word(respBytes, 4) = Word(requestData, 4)
          /\ Word(respBytes, 6) = Word(requestData, 4)
          /\ SectionsEnd(respBytes, 12, Word(respBytes, 4), Word(respBytes, 6)) = Len(respBytes)
          /\ ~RequestMalformed(requestData)
    /\ (pc # "received" /\ RequestMalformed(requestData)) =>
          /\ pc = "failed"
          /\ request = None /\ allAnswers = <<>> /\ response = None

\* C11 witness: a request of 12 bytes or more announcing two questions, of
\* which the first decodes and the second does not, has been refused
C11_Witness ==
    /\ pc = "failed"
    /\ Len(requestData) > 12
    /\ Word(requestData, 4) = 2
    /\ Question_UnmarshalFrom(requestData, 12).err = NoErr
    /\ RequestMalformed(requestData)
    /\ respBytes = <<>> /\ handleErr # NoErr /\ allAnswers = <<>>

\* C16: handling a request whose header decodes and that declares QDCOUNT = 0
\* fails with the no-questions error and yields no response bytes, in Handle
\* and in handleDNSRequest.
C16_NoQuestionsIsError ==
    (Len(requestData) >= DNSHeaderSize /\ Word(requestData, 4) = 0) =>
        /\ pc \in {"encoded", "failed"} =>
              (handleErr = "DNS message has no questions" /\ respBytes = <<>>)
        /\ appResp # None =>
              (appResp.err = "DNS message has no questions" /\ appResp.bytes = <<>>)

(***************************************************************************)
(* SpecEncodeErrors: a behaviour is either one Message.MarshalBinary on a   *)
(* message of MessageInputs or one Handle on a request of Requests.        *)
(***************************************************************************)
InitEncodeErrors == InitMessage \/ InitHandle

NextEncodeErrors ==
    \/ MarshalHeader \/ MarshalQuestionStep \/ MarshalAnswerStep \/ MessageUnmarshal
    \/ HandleParse \/ HandleForward \/ HandleBuild \/ HandleMarshal \/ AppHandle

SpecEncodeErrors == InitEncodeErrors /\ [][NextEncodeErrors]_vars

\* the names of the questions and answers of message mm
NamesOf(mm) ==
    {mm.Questions[i].Name : i \in 1..Len(mm.Questions)}
    \cup {mm.Answers[i].Name : i \in 1..Len(mm.Answers)}

\* name is longer than 253 bytes or has a label longer than 63 bytes
Overlong(name) ==
    \/ Len(name) > MaxDomainLength
    \/ \E i \in 1..Len(Split(name)) : Len(Split(name)[i]) > MaxLabelLength

EncodeErrors == {"domain name too long", "label too long"}

\* C17: when a question or answer name of the message is longer than 253
\* bytes or has a label longer than 63 bytes, Message.MarshalBinary returns
\* one of the two encode errors and no bytes; and when the response Handle
\* has built holds such a name, Handle returns that error and no bytes.
C17_OverlongNameIsEncodeError ==
    /\ (pc \in {"marshalled", "unmarshalled", "marshal failed"}
            /\ \E n \in NamesOf(m) : Overlong(n)) =>
          (pc = "marshal failed" /\ encErr \in EncodeErrors /\ marshalOut = <<>>)
    /\ (pc \in {"encoded", "failed"} /\ response # None
            /\ \E n \in NamesOf(response) : Overlong(n)) =>
          /\ pc = "failed"
          /\ handleErr = Message_MarshalBinary(response).err
          /\ handleErr \in EncodeErrors
          /\ respBytes = <<>>

\* C17 witness: Handle has built a response with a name of more than 253
\* bytes and returned the encoder's error
C17_Witness ==
    /\ pc = "failed" /\ response # None
    /\ \E n \in NamesOf(response) : Len(n) > MaxDomainLength
    /\ handleErr = "domain name too long" /\ respBytes = <<>>

\* a label of 64 bytes stops Message.MarshalBinary
C17_LabelCase ==
    /\ pc = "marshal failed" /\ encErr = "label too long" /\ marshalOut = <<>>
    /\ NameLabel64 \in NamesOf(m)

(***************************************************************************)
(* SpecSteps: decodeDNSName, Message.UnmarshalBinary and Handle run one    *)
(* step at a time on an arbitrary buffer: every invocation of              *)
(* decodeDNSNameWithCompression is a frame of the stack `frames`, every    *)
(* iteration of a loop is one step, and `steps` counts the steps taken.    *)
(***************************************************************************)
MaxStepLen == 4
MaxStepEntries == 2
MaxFrames == 8

\* the check left out
JumpsNeverExceeded(jumps) == FALSE

\* only the lengths above 127 refused
LabelTooLongAbove127(length) == length > 127

LabelTooLong(length) == length > MaxLabelLength

JumpsExceeded(jumps) == jumps > MaxCompressionJumps

\* a new invocation decodeDNSNameWithCompression(data, off, jumps)
Frame(off, jumps) ==
    [i |-> off, jumps |-> jumps, nameParts |-> <<>>, totalLength |-> 0,
     savedOffset |-> -1, at |-> "entry"]

Returned(name, next, err) == [name |-> name, next |-> next, err |-> err]

Top == frames[Len(frames)]
Pop == SubSeq(frames, 1, Len(frames) - 1)
SetTop(f) == [frames EXCEPT ![Len(frames)] = f]

\* the two checks at the head of decodeDNSNameWithCompression
DecodeEntry ==
    /\ pc = "stepping"
    /\ steps' = steps + 1 /\ frames # <<>> /\ Top.at = "entry"
    /\ IF Top.i >= Len(data)
       THEN frames' = Pop /\ ret' = Returned(<<>>, 0, "offset exceeds data length")
       ELSE IF JumpsExceeded(Top.jumps)
       THEN frames' = Pop /\ ret' = Returned(<<>>, 0, "too many compression jumps")
       ELSE frames' = SetTop([Top EXCEPT !.at = "loop"]) /\ UNCHANGED ret
    /\ UNCHANGED <<pc, data, offset, decoded, work, hdrVars, msgVars, handlerVars>>

\* one iteration of the loop of decodeDNSNameWithCompression, up to the
\* recursive call when the byte read is a pointer
DecodeIterate ==
    /\ pc = "stepping"
    /\ steps' = steps + 1 /\ frames # <<>> /\ Top.at = "loop"
    /\ LET f == Top
           i == f.i
       IN  IF i >= Len(data)
           THEN frames' = Pop /\ ret' = Returned(<<>>, 0, "data too short while reading DNS name")
           ELSE LET lengthByte == data[i + 1] IN
                IF BitAnd(lengthByte, CompressionMask) = CompressionMask
                THEN IF i + 1 >= Len(data)
                     THEN /\ frames' = Pop
                          /\ ret' = Returned(<<>>, 0, "data too short for compression pointer")
                     ELSE LET pointerOffset ==
                                  BitAnd(BigEndianUint16(data[i + 1], data[i + 2]), CompressionOffset)
                          IN  /\ Len(frames) < MaxFrames
                              /\ frames' = Append(SetTop([f EXCEPT !.savedOffset = i + 2, !.at = "call"]),
                                                  Frame(pointerOffset, f.jumps + 1))
                              /\ UNCHANGED ret
                ELSE IF lengthByte = 0
                THEN /\ frames' = Pop
                     /\ ret' = Returned(Join(f.nameParts),
                                        IF f.savedOffset # -1 THEN f.savedOffset ELSE i + 1, NoErr)
                ELSE IF LabelTooLong(lengthByte)
                THEN frames' = Pop /\ ret' = Returned(<<>>, 0, "label length exceeds maximum")
                ELSE IF i + 1 + lengthByte > Len(data)
                THEN /\ frames' = Pop
                     /\ ret' = Returned(<<>>, 0, "data too short while reading DNS name label")
                ELSE IF f.totalLength + lengthByte + 1 > MaxDomainLength
                THEN frames' = Pop /\ ret' = Returned(<<>>, 0, "domain name too long")
                ELSE /\ frames' = SetTop([f EXCEPT
                                             !.nameParts = Append(@, SubSeq(data, i + 2, i + 1 + lengthByte)),
                                             !.totalLength = @ + lengthByte + 1,
                                             !.i = i + lengthByte + 1])
                     /\ UNCHANGED ret
    /\ UNCHANGED <<pc, data, offset, decoded, work, hdrVars, msgVars, handlerVars>>

\* the recursive call has returned: its error is passed on, or its name is
\* appended and the invocation returns
DecodeResume ==
    /\ pc = "stepping"
    /\ steps' = steps + 1 /\ frames # <<>> /\ Top.at = "call" /\ ret # None
    /\ frames' = Pop
    /\ ret' = IF ret.err # NoErr
              THEN Returned(<<>>, 0, ret.err)
              ELSE Returned(Join(IF ret.name # <<>> THEN Append(Top.nameParts, ret.name)
                                 ELSE Top.nameParts),
                            Top.savedOffset, NoErr)
    /\ UNCHANGED <<pc, data, offset, decoded, work, hdrVars, msgVars, handlerVars>>

\* the operation begins: decodeDNSName calls decodeDNSNameWithCompression,
\* UnmarshalBinary and parseRequest read the header
StartOp ==
    /\ pc = "step start"
    /\ steps' = steps + 1
    /\ IF work.op = "decodeDNSName"
       THEN /\ frames' = <<Frame(offset, 0)>>
            /\ pc' = "stepping"
            /\ UNCHANGED <<decoded, work, handleErr, respBytes>>
       ELSE IF work.op = "UnmarshalBinary" /\ Len(data) < DNSHeaderSize
       THEN /\ decoded' = [msg |-> None, err |-> "data too short for DNS message"]
            /\ pc' = "step done"
            /\ UNCHANGED <<frames, work, handleErr, respBytes>>
       ELSE LET hd == MessageHeader_UnmarshalBinary(ZeroHeader, data) IN
            IF hd.err # NoErr
            THEN /\ handleErr' = hd.err /\ respBytes' = <<>>
                 /\ pc' = "failed"
                 /\ UNCHANGED <<frames, work, decoded>>
            ELSE /\ work' = [work EXCEPT !.header = hd.h, !.qLeft = hd.h.QDCount,
                                         !.aLeft = IF work.op = "UnmarshalBinary"
                                                   THEN hd.h.ANCount ELSE 0,
                                         !.off = DNSHeaderSize]
                 /\ pc' = "stepping"
                 /\ UNCHANGED <<frames, decoded, handleErr, respBytes>>
    /\ UNCHANGED <<data, offset, ret, requestData, request, allAnswers, response, appResp, handlers, udpConn, source,
                   hdrVars, msgVars>>

\* the head of the loops over the questions and the answers: the next name
\* is decoded, or the loops are over
LoopNext ==
    /\ pc = "stepping"
    /\ steps' = steps + 1 /\ frames = <<>> /\ ret = None
    /\ work.op # "decodeDNSName"
    /\ IF work.qLeft > 0 /\ work.op = "Handle" /\ work.off >= Len(data)
       THEN /\ handleErr' = "offset out of range" /\ respBytes' = <<>>
            /\ pc' = "failed"
            /\ UNCHANGED <<frames, decoded, request, idx>>
       ELSE IF work.qLeft > 0 \/ work.aLeft > 0
       THEN /\ frames' = <<Frame(work.off, 0)>>
            /\ UNCHANGED <<pc, decoded, request, idx, handleErr, respBytes>>
       ELSE IF work.op = "UnmarshalBinary"
       THEN /\ decoded' = [msg |-> [Header |-> work.header, Questions |-> work.questions,
                                    Answers |-> work.answers],
                           err |-> NoErr]
            /\ pc' = "step done"
            /\ UNCHANGED <<frames, request, idx, handleErr, respBytes>>
       ELSE /\ request' = [Header |-> work.header, Questions |-> work.questions, Answers |-> <<>>]
            /\ idx' = 1
            /\ pc' = "forwarding"
            /\ UNCHANGED <<frames, decoded, handleErr, respBytes>>
    /\ UNCHANGED <<data, offset, ret, work, requestData, allAnswers, response, appResp, handlers, udpConn, source,
                   hdrVars, m, buf, compressionMap, spans, encErr, mOut, marshalOut>>

\* the outermost decodeDNSName has returned: to decodeDNSName's caller, or
\* to the body of the loop over the questions or the answers
AfterName ==
    /\ pc = "stepping"
    /\ steps' = steps + 1 /\ frames = <<>> /\ ret # None
    /\ ret' = None
    /\ LET nameEndOffset == ret.next
           fail(e) == IF work.op = "Handle"
                      THEN /\ handleErr' = e /\ respBytes' = <<>>
                           /\ pc' = "failed"
                           /\ UNCHANGED <<decoded, work>>
                      ELSE /\ decoded' = [msg |-> None, err |-> e]
                           /\ pc' = "step done"
                           /\ UNCHANGED <<work, handleErr, respBytes>>
       IN  IF work.op = "decodeDNSName"
           THEN /\ decoded' = ret
                /\ pc' = "step done"
                /\ UNCHANGED <<work, handleErr, respBytes>>
           ELSE IF ret.err # NoErr
           THEN fail(ret.err)
           ELSE IF work.qLeft > 0
           THEN IF nameEndOffset + 4 > Len(data)
                THEN fail(IF work.op = "Handle" THEN "message too short for question type/class"
                          ELSE "data too short for question type/class")
                ELSE /\ work' = [work EXCEPT
                                   !.questions = Append(@,
                                       [Name |-> ret.name,
                                        Type |-> BigEndianUint16(data[nameEndOffset + 1], data[nameEndOffset + 2]),
                                        Class |-> BigEndianUint16(data[nameEndOffset + 3], data[nameEndOffset + 4])]),
                                   !.off = nameEndOffset + 4,
                                   !.qLeft = @ - 1]
                     /\ UNCHANGED <<pc, decoded, handleErr, respBytes>>
           ELSE IF nameEndOffset + 10 > Len(data)
           THEN fail("data too short for answer fields")
           ELSE LET RDLength == BigEndianUint16(data[nameEndOffset + 9], data[nameEndOffset + 10])
                    off2 == nameEndOffset + 10
                IN  IF off2 + RDLength > Len(data)
                    THEN fail("data too short for answer RData")
                    ELSE /\ work' = [work EXCEPT
                                       !.answers = Append(@,
                                           [Name |-> ret.name,
                                            Type |-> BigEndianUint16(data[nameEndOffset + 1], data[nameEndOffset + 2]),
                                            Class |-> BigEndianUint16(data[nameEndOffset + 3], data[nameEndOffset + 4]),
                                            TTL |-> BigEndianUint32(data[nameEndOffset + 5], data[nameEndOffset + 6],
                                                                    data[nameEndOffset + 7], data[nameEndOffset + 8]),
                                            RDLength |-> RDLength,
                                            RData |-> SubSeq(data, off2 + 1, off2 + RDLength)]),
                                       !.off = off2 + RDLength,
                                       !.aLeft = @ - 1]
                         /\ UNCHANGED <<pc, decoded, handleErr, respBytes>>
    /\ UNCHANGED <<data, offset, frames, requestData, request, allAnswers, response, appResp, handlers, udpConn, source,
                   hdrVars, msgVars>>

\* name fields of the entries of a message buffer: root, a label, pointers
\* to offset 12 (backward or to itself), a forward pointer, a bad length byte
StepNameFields == { <<0>>, <<1, 97, 0>>, <<192, 12>>, <<192, 14>>, <<1, 97, 192, 12>>, <<64>> }

StepQuestionEntries == { nf \o <<0, 1, 0, 1>> : nf \in StepNameFields }

\* answers whose RData is there, and one whose RDLength passes the end
StepAnswerEntries ==
    { nf \o <<0, 1, 0, 1, 0, 0, 0, 60, 0, 4, 8, 8, 8, 8>> : nf \in StepNameFields }
    \cup { <<0, 0, 1, 0, 1, 0, 0, 0, 60, 0, 100, 8>> }

StepEntries == StepQuestionEntries \cup StepAnswerEntries

\* QDCOUNT and ANCOUNT of the buffers' headers
StepCounts == { <<0, 0>>, <<1, 0>>, <<1, 1>>, <<2, 0>>, <<65535, 0>>, <<0, 65535>> }

\* buffers of a header and up to MaxStepEntries entries, and two buffers
\* shorter than a header
StepMessages ==
    { WireRequest(<<4660, 256, c[2], 0, 0>>, c[1], es) :
        c \in StepCounts, es \in SeqsUpTo(StepEntries, MaxStepEntries) }
    \cup { <<>>, <<18, 52, 1, 0, 0, 1, 0, 0, 0, 0, 0>> }

\* a zero byte, length bytes 1 and 2 (also offsets), the length bytes 64 and
\* 191 that are neither a length nor a pointer, and the pointer byte 192
StepByteSamples == {0, 1, 2, 64, 191, 192}

StepBuffers == UNION {[1..n -> StepByteSamples] : n \in 0..MaxStepLen}

StepWork(op) ==
    [op |-> op, header |-> ZeroHeader, qLeft |-> 0, aLeft |-> 0, off |-> 0,
     questions |-> <<>>, answers |-> <<>>]

InitSteps ==
    /\ pc = "step start"
    /\ \/ /\ work = StepWork("decodeDNSName")
          /\ data \in StepBuffers /\ offset \in 0..Len(data)
          /\ requestData = <<>>
       \/ /\ work = StepWork("UnmarshalBinary")
          /\ data \in StepMessages /\ offset = 0
          /\ requestData = <<>>
       \/ /\ work = StepWork("Handle")
          /\ data \in StepMessages /\ offset = 0
          /\ requestData = data
    /\ decoded = None /\ frames = <<>> /\ ret = None /\ steps = 0
    /\ request = None /\ allAnswers = <<>> /\ response = None
    /\ respBytes = None /\ handleErr = NoErr /\ appResp = None /\ handlers = <<>>
    /\ udpConn = None /\ source = None
    /\ IdleHeader /\ IdleMessage

NextSteps ==
    \/ StartOp \/ DecodeEntry \/ DecodeIterate \/ DecodeResume \/ LoopNext \/ AfterName
    \/ HandleForward \/ HandleBuild \/ HandleMarshal

SpecSteps == InitSteps /\ [][NextSteps]_vars

\* the operation has returned
StepsDone == pc \in {"step done", "encoded", "failed"}

\* what the operation returned is what its definition as a function gives
StepsAgree ==
    /\ (pc = "step done" /\ work.op = "decodeDNSName") =>
          LET d == decodeDNSName(data, offset) IN
          decoded = Returned(d.name, d.next, d.err)
    /\ (pc = "step done" /\ work.op = "UnmarshalBinary") =>
          decoded = Message_UnmarshalBinary(data)
    /\ (StepsDone /\ work.op = "Handle") =>
          LET p == parseRequest(data) IN
          IF p.err # NoErr THEN pc = "failed" /\ handleErr = p.err /\ respBytes = <<>>
          ELSE request = p.request

\* a buffer of n bytes holds fewer than n + 1 entries, and decoding one name
\* takes at most MaxCompressionJumps + 2 invocations of at most n + 3 steps
StepBound(n) == 2 + (n + 1) * (2 + (MaxCompressionJumps + 2) * (n + 3))

\* C12: on every input buffer, well formed or not (any QDCOUNT and ANCOUNT,
\* any arrangement of labels and pointers, forward pointers and cycles
\* included), decodeDNSName, Message.UnmarshalBinary and Handle come to an
\* end, with a result or an error: as long as the operation has not
\* returned it can take a step (of the decoding, or of Handle's loop over
\* the parsed questions and its two steps after it), and it takes no more
\* steps than a bound that depends on the length of the buffer alone; the
\* stack of
\* decodeDNSNameWithCompression never holds more than MaxCompressionJumps + 2
\* invocations.
C12_Terminates ==
    /\ \/ StepsDone
       \/ ENABLED (StartOp \/ DecodeEntry \/ DecodeIterate \/ DecodeResume \/ LoopNext \/ AfterName)
       \/ pc = "forwarding" /\ idx <= Len(request.Questions) + 1
       \/ pc = "built"
    /\ steps <= StepBound(Len(data))
    /\ Len(frames) <= MaxCompressionJumps + 2
    /\ StepsAgree

\* C12 witness: decodeDNSName has returned from a pointer that points to itself
C12_Witness ==
    /\ pc = "step done" /\ work.op = "decodeDNSName"
    /\ data = <<192, 0>> /\ offset = 0
    /\ decoded.err = "too many compression jumps"

\* the invocation at the top of the stack is about to read, in the position
\* of a length byte, a byte in 64..191
ReadsBadLength ==
    /\ pc = "stepping" /\ frames # <<>> /\ Top.at = "loop"
    /\ Top.i < Len(data)
    /\ data[Top.i + 1] \in 64..191

LabelError(r) == r # None /\ r.err = "label length exceeds maximum"

\* C14: whenever decodeDNSName reads, where a length byte stands, a byte in
\* 64..191, directly or after following pointers, the invocation that reads
\* it returns the label-too-long error, every caller up the stack passes
\* that error on and the operation returns it; and a name that
\* decodeDNSName returns has no label longer than 63 bytes.
C14_BadLengthIsLabelError ==
    /\ [][/\ ReadsBadLength => (LabelError(ret') /\ frames' = Pop)
          /\ (LabelError(ret) /\ frames # <<>>) => LabelError(ret')
          /\ (LabelError(ret) /\ frames = <<>>) =>
                IF work.op = "Handle"
                THEN handleErr' = "label length exceeds maximum" /\ pc' = "failed"
                ELSE LabelError(decoded') /\ pc' = "step done"]_vars
    /\ []((pc = "step done" /\ work.op = "decodeDNSName" /\ decoded.err = NoErr) =>
             \A k \in 1..Len(Split(decoded.name)) : Len(Split(decoded.name)[k]) <= MaxLabelLength)

\* C14 witness: decodeDNSName has followed a pointer to the byte 191 and
\* returned the label-too-long error
C14_Witness ==
    /\ pc = "step done" /\ work.op = "decodeDNSName"
    /\ data = <<192, 2, 191>> /\ offset = 0
    /\ LabelError(decoded)



\* the stage Handle has reached: 0 Received, 1 HeaderParsed, 2
\* QuestionsParsed (lookups under way), 3 AnswersResolved, 4 ResponseBuilt,
\* 5 Encoded
HandleStage ==
    IF pc = "step start" THEN 0
    ELSE IF pc = "stepping" THEN 1
    ELSE IF pc = "forwarding" THEN (IF idx <= Len(request.Questions) THEN 2 ELSE 3)
    ELSE IF pc = "built" THEN 4
    ELSE 5

\* one step of Handle keeps the order of the stages
StageStep ==
    work.op = "Handle" =>
        /\ pc \notin {"failed", "encoded"}
        /\ pc' # "failed" =>
              \/ HandleStage' \in {HandleStage, HandleStage + 1}
              \/ HandleStage = 1 /\ HandleStage' = 3 /\ work.header.QDCount = 0
        /\ pc' = "failed" =>
              /\ handleErr' # NoErr /\ respBytes' = <<>>
              /\ UNCHANGED <<request, allAnswers, response>>
        /\ allAnswers' # allAnswers =>
              /\ HandleStage = 2
              /\ allAnswers' = allAnswers \o forward(request.Questions[idx])
              /\ idx' = idx + 1
        /\ response' # response => (HandleStage = 3 /\ HandleStage' = 4)
        /\ respBytes' # respBytes => (pc' = "failed" \/ (HandleStage = 4 /\ HandleStage' = 5))

\* what each stage of Handle has, and has not, done
StageState ==
    work.op = "Handle" =>
        /\ (pc \in {"step start", "stepping"}) =>
              (request = None /\ allAnswers = <<>> /\ response = None /\ respBytes = None
                  /\ handleErr = NoErr)
        /\ pc = "stepping" =>
              (work.header = MessageHeader_UnmarshalBinary(ZeroHeader, requestData).h
                  /\ work.qLeft + Len(work.questions) = work.header.QDCount)
        /\ (pc \in {"forwarding", "built", "encoded"}) =>
              (request = parseRequest(requestData).request
                  /\ Len(request.Questions) = request.Header.QDCount
                  /\ handleErr = NoErr)
        /\ pc = "forwarding" =>
              (allAnswers = Concat([i \in 1..(idx - 1) |-> forward(request.Questions[i])])
                  /\ response = None /\ respBytes = None)
        /\ (pc \in {"built", "encoded"}) =>
              (response.Answers = allAnswers
                  /\ allAnswers = Concat([i \in 1..Len(request.Questions) |->
                                             forward(request.Questions[i])]))
        /\ pc = "built" => respBytes = None
        /\ pc = "encoded" => respBytes = Message_MarshalBinary(response).bytes
        /\ pc = "failed" =>
              /\ handleErr # NoErr /\ respBytes = <<>>
              /\ request = None =>
                    (handleErr = parseRequest(requestData).err
                        /\ allAnswers = <<>> /\ response = None)
              /\ request # None =>
                    (response # None /\ handleErr = Message_MarshalBinary(response).err)

\* C25: one invocation of Handle goes through the stages Received,
\* HeaderParsed, QuestionsParsed, AnswersResolved, ResponseBuilt, Encoded in
\* that order and stops at the first failure: no lookup is made before all
\* QDCOUNT questions have been parsed, the lookups are made in the order of
\* the questions, the response is built after the last lookup and encoded
\* after it is built, and after a failure no step is taken: the error
\* returned is the error of the stage that failed, and the later stages
\* have left nothing.
C25_StagesInOrder == [][StageStep]_vars /\ []StageState

\* C25 witness: Handle has returned the encoded response to a request of
\* two questions, after two lookups
C25_Witness ==
    /\ work.op = "Handle" /\ pc = "encoded"
    /\ Len(request.Questions) = 2 /\ Len(allAnswers) = 2 /\ idx = 3
    /\ respBytes # <<>>

\* a request whose second question is cut short has failed in the parsing,
\* after the first question was parsed
C25_FailedInParsing ==
    /\ work.op = "Handle" /\ pc = "failed"
    /\ Len(work.questions) = 1 /\ work.qLeft = 1
    /\ request = None /\ allAnswers = <<>>

(***************************************************************************)
(* SpecConcurrent: NumHandlers invocations of Handle, each on its own      *)
(* DNSHandler and its own request buffer, run interleaved.  handlers[i]    *)
(* holds the fields of handler i (requestData, request, response) and the  *)
(* locals of its Handle and of the Message.MarshalBinary it calls          *)
(* (allAnswers, buf, compressionMap, the loop index k).  One step is       *)
(* parseRequest, one iteration of a loop of Handle or of MarshalBinary,    *)
(* the build of the response, or a return.  mockDNSRecords and             *)
(* defaultMockIP are the only package-level values read; nothing writes    *)
(* them.                                                                   *)
(***************************************************************************)
NumHandlers == 2

Handlers == 1..NumHandlers

\* one table for all the encodes, in place of one per MarshalBinary
TableShared(i) == 1

\* compressionMap := make(CompressionMap): the table of invocation i is its own
TableOwner(i) == i

\* Handle run alone, from the request bytes to what it returns
Handle(d) ==
    LET p == parseRequest(d) IN
    IF p.err # NoErr
    THEN [bytes |-> <<>>, err |-> p.err]
    ELSE LET answers == Concat([i \in 1..Len(p.request.Questions) |->
                                    forward(p.request.Questions[i])])
             resp == [Header |-> buildResponseHeader(p.request, answers),
                      Questions |-> p.request.Questions,
                      Answers |-> answers]
         IN  Message_MarshalBinary(resp)

\* "b.a" and "a"; stackoverflow.com twice, the second time as a pointer
ConcurrentRequests ==
    { WireRequest(<<4660, 256, 0, 0, 0>>, 1,
          <<WireQuestion(WireLabels(Split(NameStackoverflowCom)), 1, 1)>>),
      WireRequest(<<43981, 256, 0, 0, 0>>, 2,
          <<WireQuestion(WireLabels(Split(Chain(2))), 1, 1),
            WireQuestion(WireLabels(Split(Chain(1))), 1, 1)>>),
      WireRequest(<<4660, 10368, 0, 0, 0>>, 2,
          <<WireQuestion(WireLabels(Split(NameStackoverflowCom)), 1, 1),
            WireQuestion(<<192, 12>>, 1, 1)>>),
      WireRequest(<<4660, 256, 0, 0, 0>>, 0, <<>>),
      WireRequest(<<4660, 256, 0, 0, 0>>, 2,
          <<WireQuestion(WireLabels(Split(NameMailExampleCom)), 28, 3)>>) }

NewDNSHandler(d) ==
    [requestData |-> d, request |-> None, response |-> None, allAnswers |-> <<>>,
     k |-> 0, buf |-> <<>>, compressionMap |-> <<>>, at |-> "new",
     bytes |-> None, err |-> NoErr]

InitConcurrent ==
    /\ pc = "concurrent"
    /\ handlers \in [Handlers -> {NewDNSHandler(d) : d \in ConcurrentRequests}]
    /\ requestData = <<>> /\ request = None /\ allAnswers = <<>> /\ response = None
    /\ respBytes = None /\ handleErr = NoErr /\ appResp = None
    /\ udpConn = None /\ source = None
    /\ IdleHeader /\ IdleMessage /\ IdleName

OthersIdle == UNCHANGED <<pc, requestData, request, allAnswers, response, respBytes,
                          handleErr, appResp, udpConn, source, hdrVars, msgVars,
                          nameVars>>

\* Step 1 of Handle
ConcParse ==
    \E i \in Handlers :
        /\ handlers[i].at = "new"
        /\ LET p == parseRequest(handlers[i].requestData) IN
           handlers' = [handlers EXCEPT ![i] =
               IF p.err # NoErr
               THEN [@ EXCEPT !.at = "returned", !.bytes = <<>>, !.err = p.err]
               ELSE [@ EXCEPT !.at = "forwarding", !.request = p.request, !.k = 1]]
        /\ OthersIdle

\* Step 2 of Handle, one iteration
ConcForward ==
    \E i \in Handlers :
        /\ handlers[i].at = "forwarding"
        /\ handlers[i].k <= Len(handlers[i].request.Questions)
        /\ handlers' = [handlers EXCEPT ![i] =
               [@ EXCEPT !.allAnswers = @ \o forward(handlers[i].request.Questions[handlers[i].k]),
                         !.k = @ + 1]]
        /\ OthersIdle

\* Step 3 of Handle
ConcBuild ==
    \E i \in Handlers :
        /\ handlers[i].at = "forwarding"
        /\ handlers[i].k > Len(handlers[i].request.Questions)
        /\ handlers' = [handlers EXCEPT ![i] =
               [@ EXCEPT !.response = [Header |-> buildResponseHeader(handlers[i].request,
                                                                      handlers[i].allAnswers),
                                       Questions |-> handlers[i].request.Questions,
                                       Answers |-> handlers[i].allAnswers],
                         !.at = "built"]]
        /\ OthersIdle

\* Step 4 of Handle calls MarshalBinary: the buffer, the table, the header
ConcMarshalHeader ==
    \E i \in Handlers :
        /\ handlers[i].at = "built"
        /\ LET started == [handlers EXCEPT ![i] =
                   [@ EXCEPT !.buf = MessageHeader_MarshalBinary(handlers[i].response.Header),
                             !.k = 1, !.at = "encoding"]]
           IN  handlers' = [started EXCEPT ![TableOwner(i)].compressionMap = <<>>]
        /\ OthersIdle

\* entry number k of the response of handler i: its questions, then its answers
ConcEntry(i) ==
    LET r == handlers[i].response
        k == handlers[i].k
        cm == handlers[TableOwner(i)].compressionMap
    IN  IF k <= Len(r.Questions)
        THEN MarshalQuestion(r.Questions[k], handlers[i].buf, cm)
        ELSE MarshalAnswer(r.Answers[k - Len(r.Questions)], handlers[i].buf, cm)

\* one iteration of a loop of MarshalBinary
ConcMarshalEntry ==
    \E i \in Handlers :
        /\ handlers[i].at = "encoding"
        /\ handlers[i].k <= Len(handlers[i].response.Questions) + Len(handlers[i].response.Answers)
        /\ LET e == ConcEntry(i) IN
           IF e.err # NoErr
           THEN handlers' = [handlers EXCEPT ![i] =
                    [@ EXCEPT !.at = "returned", !.bytes = <<>>, !.err = e.err]]
           ELSE LET written == [handlers EXCEPT ![i] = [@ EXCEPT !.buf = e.buf, !.k = @ + 1]]
                IN  handlers' = [written EXCEPT ![TableOwner(i)].compressionMap = e.cmap]
        /\ OthersIdle

\* return buf.Bytes(), nil
ConcReturn ==
    \E i \in Handlers :
        /\ handlers[i].at = "encoding"
        /\ handlers[i].k > Len(handlers[i].response.Questions) + Len(handlers[i].response.Answers)
        /\ handlers' = [handlers EXCEPT ![i] = [@ EXCEPT !.at = "returned", !.bytes = handlers[i].buf]]
        /\ OthersIdle

NextConcurrent ==
    \/ ConcParse \/ ConcForward \/ ConcBuild \/ ConcMarshalHeader \/ ConcMarshalEntry
    \/ ConcReturn

SpecConcurrent == InitConcurrent /\ [][NextConcurrent]_vars

\* the names that have been encoded into the buffer of handler i so far
EncodedNames(i) ==
    LET r == handlers[i].response
        names == EntryNames(r)
    IN  {names[j] : j \in 1..(handlers[i].k - 1)}

\* every suffix of the names of S
SuffixesOf(S) ==
    UNION { {Join(SubSeq(Split(n), j, Len(Split(n)))) : j \in 1..Len(Split(n))} : n \in S }

\* C18: under every interleaving, an invocation that has returned has
\* returned the bytes and the error Handle returns on its request when run
\* alone; the table of an encode is empty when its first entry is encoded
\* and holds only suffixes of names that this encode has written; a parsed
\* request and a built response are those of the handler's own request
\* bytes; two invocations on the same request bytes return the same bytes.
C18_InvocationsIndependent ==
    /\ \A i \in Handlers :
          LET hi == handlers[i] IN
          /\ hi.at = "returned" =>
                (hi.bytes = Handle(hi.requestData).bytes /\ hi.err = Handle(hi.requestData).err)
          /\ (hi.at = "encoding" /\ hi.k = 1) => hi.compressionMap = <<>>
          /\ hi.at = "encoding" => DOMAIN hi.compressionMap \subseteq SuffixesOf(EncodedNames(i))
          /\ hi.request # None => hi.request = parseRequest(hi.requestData).request
          /\ hi.response # None => hi.response.Questions = hi.request.Questions
    /\ \A i, j \in Handlers :
          (handlers[i].at = "returned" /\ handlers[j].at = "returned"
              /\ handlers[i].requestData = handlers[j].requestData) =>
                handlers[i].bytes = handlers[j].bytes

\* C18 witness: two invocations on the same request bytes are both in the
\* middle of their encode, the first with two entries written and the second
\* with one, each with entries in its table; the first one's next entry
\* repeats a name it has written
C18_Witness ==
    /\ handlers[1].requestData = handlers[2].requestData
    /\ handlers[1].at = "encoding" /\ handlers[1].k = 3
    /\ handlers[2].at = "encoding" /\ handlers[2].k = 2
    /\ handlers[1].compressionMap # <<>> /\ handlers[2].compressionMap # <<>>
    /\ handlers[1].response.Answers[1].Name \in DOMAIN handlers[1].compressionMap


(***************************************************************************)
(* SpecTruncated: Message.UnmarshalBinary on a buffer, then                *)
(* Question.UnmarshalFrom on the same buffer at an offset.  The buffers    *)
(* are whole messages cut after every number of bytes, and the buffers of  *)
(* SpecSteps.                                                              *)
(***************************************************************************)
\* a question for "ab.c"; a question that is a label and a pointer to it;
\* an answer for a pointer to it with 4 bytes of RDATA; a question whose
\* pointer leads to the last bytes of the message
WholeMessages ==
    { WireRequest(<<4660, 256, 0, 0, 0>>, 1,
          <<WireQuestion(<<2, 97, 98, 1, 99, 0>>, 1, 1)>>),
      WireRequest(<<4660, 256, 0, 0, 0>>, 2,
          <<WireQuestion(<<2, 97, 98, 1, 99, 0>>, 1, 1),
            WireQuestion(<<1, 100, 192, 12>>, 1, 1)>>),
      WireRequest(<<4660, 33152, 1, 0, 0>>, 1,
          <<WireQuestion(<<2, 97, 98, 1, 99, 0>>, 1, 1),
            <<192, 12, 0, 1, 0, 1, 0, 0, 0, 60, 0, 4, 8, 8, 8, 8>>>>),
      WireRequest(<<4660, 256, 0, 0, 0>>, 1,
          <<WireQuestion(<<192, 18>>, 1, 1), <<1, 97, 0>>>>),
      WireRequest(<<4660, 33152, 2, 0, 0>>, 0,
          <<<<1, 97, 0, 0, 1, 0, 1, 0, 0, 0, 60, 0, 0>>,
            <<192, 12, 0, 16, 0, 1, 0, 0, 0, 60, 0, 2, 1, 120>>>>) }

TruncatedBuffers ==
    UNION { {SubSeq(w, 1, n) : n \in 0..Len(w)} : w \in WholeMessages }
    \cup StepMessages \cup StepBuffers

InitTruncated ==
    /\ pc = "buffer"
    /\ data \in TruncatedBuffers
    /\ offset \in {0, 2, DNSHeaderSize, 18}
    /\ decoded = None
    /\ frames = <<>> /\ ret = None /\ work = None /\ steps = 0
    /\ IdleHeader /\ IdleMessage /\ IdleHandler

TruncatedUnmarshal ==
    /\ pc = "buffer"
    /\ mOut' = Message_UnmarshalBinary(data)
    /\ pc' = "message read"
    /\ UNCHANGED <<m, buf, compressionMap, idx, spans, encErr, marshalOut,
                   hdrVars, nameVars, handlerVars>>

TruncatedQuestion ==
    /\ pc = "message read"
    /\ decoded' = Question_UnmarshalFrom(data, offset)
    /\ pc' = "question read"
    /\ UNCHANGED <<data, offset, frames, ret, work, steps, hdrVars, msgVars, handlerVars>>

NextTruncated == TruncatedUnmarshal \/ TruncatedQuestion

SpecTruncated == InitTruncated /\ [][NextTruncated]_vars

\* Reading the name at offset i by the wire format alone, pointers followed
\* (at most fuel of them): "overrun" when a byte beyond the end of d is
\* needed (the length byte, a label's bytes, a pointer's second byte, a
\* pointer's target), "bad" at a length byte of 64 to 191 or when the fuel
\* is used up, "name" at the zero byte.
RECURSIVE NameReading(_, _, _)
NameReading(d, i, fuel) ==
    IF i >= Len(d) THEN "overrun"
    ELSE LET b == d[i + 1] IN
         IF b >= 192
         THEN IF i + 1 >= Len(d) THEN "overrun"
              ELSE IF fuel = 0 THEN "bad"
              ELSE NameReading(d, (b * 256 + d[i + 2]) % 16384, fuel - 1)
         ELSE IF b = 0 THEN "name"
         ELSE IF i + 1 + b > Len(d) THEN "overrun"
         ELSE IF b > 63 THEN "bad"
         ELSE NameReading(d, i + 1 + b, fuel)

\* nq questions and then na answers, read from off by the wire format alone,
\* need a byte beyond the end of d: in a name, in the 4 bytes after a
\* question's name, in the 10 bytes after an answer's name, or in the
\* RDLENGTH bytes after those
RECURSIVE EntriesOverrun(_, _, _, _)
EntriesOverrun(d, off, nq, na) ==
    IF nq = 0 /\ na = 0 THEN FALSE
    ELSE LET r == NameReading(d, off, MaxCompressionJumps + 1) IN
         IF r = "overrun" THEN TRUE
         ELSE IF r = "bad" THEN FALSE
         ELSE LET e == OwnEnd(d, off) IN
              IF nq > 0
              THEN IF e + 4 > Len(d) THEN TRUE ELSE EntriesOverrun(d, e + 4, nq - 1, na)
              ELSE IF e + 10 > Len(d) THEN TRUE
              ELSE LET rdlen == d[e + 9] * 256 + d[e + 10] IN
                   IF e + 10 + rdlen > Len(d) THEN TRUE
                   ELSE EntriesOverrun(d, e + 10 + rdlen, nq, na - 1)

MessageOverruns(d) ==
    \/ Len(d) < DNSHeaderSize
    \/ EntriesOverrun(d, DNSHeaderSize, Word(d, 4), Word(d, 6))

\* C24: Message.UnmarshalBinary returns an error on every buffer in which
\* the header, or the QDCOUNT questions and ANCOUNT answers read from offset
\* 12, need a byte beyond the end of the buffer; Question.UnmarshalFrom
\* returns an error at every offset where the question needs one; and what
\* either returns without an error lies inside the buffer.
C24_TruncatedIsError ==
    /\ (pc \in {"message read", "question read"} /\ MessageOverruns(data)) =>
          (mOut.err # NoErr /\ mOut.msg = None)
    /\ (pc \in {"message read", "question read"} /\ mOut.err = NoErr) =>
          SectionsEnd(data, DNSHeaderSize, Word(data, 4), Word(data, 6)) \in DNSHeaderSize..Len(data)
    /\ (pc = "question read" /\ EntriesOverrun(data, offset, 1, 0)) =>
          (decoded.err # NoErr /\ decoded.q = None)
    /\ (pc = "question read" /\ decoded.err = NoErr) =>
          (offset + 5 <= decoded.next /\ decoded.next <= Len(data))

\* C24 witness: a message with one question and one answer, cut inside the
\* answer's RDATA, has been refused by UnmarshalBinary, and the question at
\* offset 12 has been read by UnmarshalFrom
C24_Witness ==
    /\ pc = "question read"
    /\ Len(data) = 35 /\ Word(data, 4) = 1 /\ Word(data, 6) = 1
    /\ ~EntriesOverrun(data, DNSHeaderSize, 1, 0)
    /\ MessageOverruns(data)
    /\ mOut.err = "data too short for answer RData"
    /\ offset = DNSHeaderSize /\ decoded.err = NoErr /\ decoded.next = 22


(***************************************************************************)
(* SpecServer: the loop of main (src/app/main.go).  udpConn.read is the    *)
(* list of the datagrams ReadFromUDP has returned, each with its sender;   *)
(* udpConn.written is the list of the datagrams WriteToUDP has sent, each  *)
(* with its destination and the number of the datagram read before it.     *)
(* requestData is receivedData, appResp is what handleDNSRequest returned. *)
(***************************************************************************)
MaxDatagrams == 3

MaxDNSPacketSize == 512

\* the senders of datagrams
Clients == {1, 2}

\* 11 bytes; a header alone; a header that announces a question that is not
\* there; a question for "a"
ServerPayloads ==
    { SubSeq(WireRequest(<<4660, 256, 0, 0, 0>>, 0, <<>>), 1, 11),
      WireRequest(<<4660, 256, 0, 0, 0>>, 0, <<>>),
      WireRequest(<<4660, 256, 0, 0, 0>>, 1, <<>>),
      WireRequest(<<4661, 2304, 0, 0, 0>>, 1, <<WireQuestion(<<1, 97, 0>>, 1, 1)>>) }

\* the test of handleDNSRequest's error left out
HandlingFailedNever(r) == FALSE

\* if err != nil after handleDNSRequest
HandlingFailed(r) == r.err # NoErr

InitServer ==
    /\ pc = "reading"
    /\ udpConn = [read |-> <<>>, written |-> <<>>]
    /\ source = None
    /\ requestData = <<>> /\ appResp = None
    /\ request = None /\ allAnswers = <<>> /\ response = None
    /\ respBytes = None /\ handleErr = NoErr /\ handlers = <<>>
    /\ IdleHeader /\ IdleMessage /\ IdleName

ServerIdle == UNCHANGED <<request, allAnswers, response, respBytes, handleErr, handlers,
                          hdrVars, msgVars, nameVars>>

\* ReadFromUDP returns a datagram of at most MaxDNSPacketSize bytes and its
\* sender; one shorter than the header is dropped at once
ServerRead ==
    /\ pc = "reading"
    /\ Len(udpConn.read) < MaxDatagrams
    /\ \E d \in ServerPayloads, s \in Clients :
          LET size == IF Len(d) < MaxDNSPacketSize THEN Len(d) ELSE MaxDNSPacketSize
              receivedData == SubSeq(d, 1, size)
          IN  /\ udpConn' = [udpConn EXCEPT !.read = Append(@, [data |-> receivedData, source |-> s])]
              /\ source' = s
              /\ requestData' = receivedData
              /\ pc' = IF size < DNSHeaderSize THEN "reading" ELSE "processing"
    /\ UNCHANGED appResp
    /\ ServerIdle

\* ReadFromUDP returns an error: break
ServerReadError ==
    /\ pc = "reading"
    /\ pc' = "exited"
    /\ UNCHANGED <<udpConn, source, requestData, appResp>>
    /\ ServerIdle

\* handleDNSRequest(receivedData); on an error, continue
ServerHandle ==
    /\ pc = "processing"
    /\ appResp' = handleDNSRequest(requestData)
    /\ pc' = IF HandlingFailed(appResp') THEN "reading" ELSE "sending"
    /\ UNCHANGED <<udpConn, source, requestData>>
    /\ ServerIdle

\* WriteToUDP(response, source): the datagram is sent, or the call fails and
\* the failure is logged; the loop goes on in both cases
ServerWrite ==
    /\ pc = "sending"
    /\ \/ udpConn' = [udpConn EXCEPT !.written =
                         Append(@, [data |-> appResp.bytes, to |-> source,
                                    after |-> Len(udpConn.read)])]
       \/ UNCHANGED udpConn
    /\ pc' = "reading"
    /\ UNCHANGED <<source, requestData, appResp>>
    /\ ServerIdle

NextServer == ServerRead \/ ServerReadError \/ ServerHandle \/ ServerWrite

SpecServer == InitServer /\ [][NextServer]_vars

\* the datagram read last
LastRead == udpConn.read[Len(udpConn.read)]

\* one step of the loop sends only the response to the datagram read last,
\* and drops a short datagram, or one whose handling fails, without a send
ServerStep ==
    /\ udpConn'.written # udpConn.written =>
          /\ pc = "sending" /\ pc' = "reading"
          /\ udpConn'.read = udpConn.read
          /\ Len(LastRead.data) >= DNSHeaderSize
          /\ handleDNSRequest(LastRead.data).err = NoErr
          /\ udpConn'.written = Append(udpConn.written,
                                       [data |-> handleDNSRequest(LastRead.data).bytes,
                                        to |-> LastRead.source,
                                        after |-> Len(udpConn.read)])
    /\ (udpConn'.read # udpConn.read /\ Len(LastRead'.data) < DNSHeaderSize) =>
          (pc' = "reading" /\ udpConn'.written = udpConn.written)
    /\ (pc = "processing" /\ handleDNSRequest(LastRead.data).err # NoErr) =>
          (pc' = "reading" /\ udpConn'.written = udpConn.written)
    /\ pc' = "exited" => (pc = "reading" /\ UNCHANGED udpConn)

\* every datagram sent answers one datagram read, and no datagram read is
\* answered twice
ServerState ==
    LET w == udpConn.written IN
    /\ \A k \in 1..Len(w) :
          /\ w[k].after \in 1..Len(udpConn.read)
          /\ LET rd == udpConn.read[w[k].after] IN
             /\ Len(rd.data) >= DNSHeaderSize
             /\ handleDNSRequest(rd.data).err = NoErr
             /\ w[k].data = handleDNSRequest(rd.data).bytes
             /\ w[k].to = rd.source
    /\ \A j, k \in 1..Len(w) : j < k => w[j].after < w[k].after
    /\ pc \in {"processing", "sending"} => ~(\E k \in 1..Len(w) : w[k].after = Len(udpConn.read))

\* C26: in the loop of main, every datagram read is answered by at most one
\* datagram, sent to the sender of the datagram read, after handleDNSRequest
\* has returned its bytes without an error; a datagram shorter than 12 bytes
\* and a datagram on which handleDNSRequest returns an error cause no send,
\* and after either the loop is back at ReadFromUDP.
C26_OneReplyPerDatagram == [][ServerStep]_vars /\ []ServerState

\* C26 witness: a datagram of 11 bytes and then a datagram whose question is
\* missing were dropped, and then the datagram of the other client was
\* answered
C26_Witness ==
    /\ pc = "reading"
    /\ Len(udpConn.read) = 3
    /\ Len(udpConn.read[1].data) = 11
    /\ Len(udpConn.read[2].data) = DNSHeaderSize
    /\ handleDNSRequest(udpConn.read[2].data).err # NoErr
    /\ udpConn.read[2].source = 1 /\ udpConn.read[3].source = 2
    /\ Len(udpConn.written) = 1
    /\ udpConn.written[1].after = 3 /\ udpConn.written[1].to = 2
    /\ Len(udpConn.written[1].data) > DNSHeaderSize


(***************************************************************************)
(* SpecRoundTrip: encodeDNSName on a name and an empty buffer, then        *)
(* decodeDNSName at offset 0 of the bytes written.  work.name is the name. *)
(***************************************************************************)
MaxNameLabels == 3

\* "a", "bc", "www", "x-1"
ShortLabels == {<<97>>, <<98, 99>>, <<119, 119, 119>>, <<120, 45, 49>>}

\* names of 252 and of 253 bytes with labels of 63 bytes or less, and a
\* single label of 63 bytes
Name252 == Join(<<LabelOf(120, 63), LabelOf(121, 63), LabelOf(122, 63), LabelOf(119, 60)>>)

RoundTripNames ==
    {Join(ls) : ls \in UNION {[1..k -> ShortLabels] : k \in 1..MaxNameLabels}}
    \cup {LabelOf(120, 63), Name252, BigName}

InitRoundTrip ==
    /\ pc = "name given"
    /\ \E n \in RoundTripNames : work = [op |-> "encodeDNSName", name |-> n]
    /\ data = <<>> /\ offset = 0 /\ decoded = None
    /\ frames = <<>> /\ ret = None /\ steps = 0
    /\ IdleHeader /\ IdleMessage /\ IdleHandler

\* encodeDNSName(name, buf) on an empty buffer
RoundTripEncode ==
    /\ pc = "name given"
    /\ LET e == encodeDNSName(work.name, buf) IN
       /\ buf' = e.buf
       /\ encErr' = e.err
    /\ pc' = "name encoded"
    /\ UNCHANGED <<m, compressionMap, idx, spans, mOut, marshalOut,
                   hdrVars, nameVars, handlerVars>>

\* decodeDNSName(buf.Bytes(), 0)
RoundTripDecode ==
    /\ pc = "name encoded"
    /\ encErr = NoErr
    /\ data' = buf
    /\ offset' = 0
    /\ decoded' = decodeDNSName(buf, 0)
    /\ pc' = "name decoded"
    /\ UNCHANGED <<frames, ret, work, steps, hdrVars, msgVars, handlerVars>>

NextRoundTrip == RoundTripEncode \/ RoundTripDecode

SpecRoundTrip == InitRoundTrip /\ [][NextRoundTrip]_vars

\* the labels of the name are not empty and hold at most MaxLabelLength
\* bytes each
LabelsFit(name) ==
    \A k \in 1..Len(Split(name)) : Len(Split(name)[k]) \in 1..MaxLabelLength

\* encodeDNSName has written the labels of the name, each after its length
\* byte, and a zero byte, and decodeDNSName has read the name back and
\* returned the number of bytes written
RoundTrips ==
    /\ pc \in {"name encoded", "name decoded"} =>
          (encErr = NoErr /\ buf = WireLabels(Split(work.name))
              /\ \A i \in 1..Len(buf) : buf[i] < 192)
    /\ pc = "name decoded" =>
          (decoded.err = NoErr /\ decoded.name = work.name /\ decoded.next = Len(buf))

\* C27: for every name whose labels are not empty and hold at most 63 bytes
\* each and whose length is at most 253, encodeDNSName writes each label as
\* a length byte and the label's bytes, then one zero byte, and no pointer;
\* decodeDNSName at offset 0 of those bytes returns the name and, as next
\* offset, the number of bytes written.
C27_NameRoundTrip ==
    (LabelsFit(work.name) /\ Len(work.name) <= MaxDomainLength) => RoundTrips

\* the same for the names of at most 252 bytes
RoundTripBelowLimit ==
    (LabelsFit(work.name) /\ Len(work.name) < MaxDomainLength) => RoundTrips

\* a name of two labels has been written and read back
RoundTripReached ==
    /\ pc = "name decoded" /\ Len(Split(work.name)) = 2
    /\ decoded.name = work.name /\ decoded.next = Len(work.name) + 2


(***************************************************************************)
(* SpecRecord: ResourceRecord.MarshalBinary on a record, and               *)
(* Message.MarshalBinary on the message whose only entry is that record,   *)
(* in either order.  m.Answers[1] is the record, buf and encErr are what   *)
(* ResourceRecord.MarshalBinary returned, mOut what Message.MarshalBinary  *)
(* returned.                                                               *)
(***************************************************************************)
\* the lengths of RData: none, a few bytes, around one byte of length,
\* around two bytes of length
RDataLengths == {0, 1, 4, 255, 256, 65535, 65536}

\* the values of the RDLength field before the encode
StoredRDLengths == {0, 4, 7, 65535}

RecordInputs ==
    {[Name |-> n, Type |-> 16, Class |-> 1, TTL |-> 60, RDLength |-> s,
      RData |-> [i \in 1..l |-> 7]] :
        n \in {Chain(1), Chain(2), Chain(3)}, s \in StoredRDLengths, l \in RDataLengths}

InitRecord ==
    /\ pc = "record"
    /\ \E rr \in RecordInputs : m = Msg(4660, 33024, <<>>, <<rr>>)
    /\ buf = None /\ encErr = NoErr /\ mOut = None
    /\ compressionMap = <<>> /\ idx = 0 /\ spans = <<>> /\ marshalOut = None
    /\ IdleHeader /\ IdleName /\ IdleHandler

\* rr.MarshalBinary(): the bytes, and the RDLength field it assigns
RecordMarshal ==
    /\ pc = "record" /\ buf = None
    /\ LET r == ResourceRecord_MarshalBinary(m.Answers[1]) IN
       /\ buf' = r.bytes
       /\ encErr' = r.err
       /\ m' = IF r.err = NoErr
               THEN [m EXCEPT !.Answers[1].RDLength = Uint16(Len(m.Answers[1].RData))]
               ELSE m
    /\ UNCHANGED <<pc, compressionMap, idx, spans, mOut, marshalOut,
                   hdrVars, nameVars, handlerVars>>

\* m.MarshalBinary()
RecordInMessageMarshal ==
    /\ pc = "record" /\ mOut = None
    /\ mOut' = Message_MarshalBinary(m)
    /\ UNCHANGED <<pc, m, buf, compressionMap, idx, spans, encErr, marshalOut,
                   hdrVars, nameVars, handlerVars>>

NextRecord == RecordMarshal \/ RecordInMessageMarshal

SpecRecord == InitRecord /\ [][NextRecord]_vars

\* in the bytes b, the record whose name field starts at offset start: the
\* two bytes after type, class and TTL hold the number of bytes that follow
\* them, and those bytes are the record's RData
RDLengthAt(b, start, rr) ==
    LET p == start + Len(rr.Name) + 2 + 8 IN
    /\ Len(b) >= p + 2
    /\ b[p + 1] * 256 + b[p + 2] = Len(b) - (p + 2)
    /\ SubSeq(b, p + 3, Len(b)) = rr.RData

RDLengthWritten ==
    /\ buf # None => (encErr = NoErr /\ RDLengthAt(buf, 0, m.Answers[1]))
    /\ mOut # None => (mOut.err = NoErr /\ RDLengthAt(mOut.bytes, DNSHeaderSize, m.Answers[1]))

\* C28: for every ResourceRecord, whatever its RDLength field holds and
\* whatever the length of its RData, the two RDLENGTH bytes that
\* Message.MarshalBinary and ResourceRecord.MarshalBinary write hold the
\* number of RData bytes written after them.
C28_RDLengthIsRDataLength == RDLengthWritten

\* the same for the RData of at most 65535 bytes
RDLengthWithinUint16 ==
    Len(m.Answers[1].RData) < 65536 => RDLengthWritten

\* both encodes of a record of 255 bytes of RData whose RDLength field held
\* 7 are done, the record's own first
RDLengthReached ==
    /\ buf # None /\ mOut # None
    /\ Len(m.Answers[1].RData) = 255 /\ m.Answers[1].RDLength = 255
    /\ buf[Len(m.Answers[1].Name) + 11] = 0 /\ buf[Len(m.Answers[1].Name) + 12] = 255


(***************************************************************************)
(* SpecVariants: Handle on a request and on variants of it, each on its    *)
(* own DNSHandler, run as in SpecConcurrent.  The variants have the id,    *)
(* Opcode, RD, QDCOUNT and question bytes of the request and differ in     *)
(* QR, AA, TC, RA, Z, RCODE, ANCOUNT, NSCOUNT and ARCOUNT.                 *)
(***************************************************************************)
\* the bits of the flags word of Opcode and RD
KeptFlagBits == 30976

\* Opcode 0 with RD, Opcode 1 without
KeptFlags == {256, 2048}

\* none of QR, AA, TC, RA, Z, RCODE; QR; AA; all of them
OtherFlags == {0, 32768, 1024, 34559}

\* a question for "a"; a question whose name is a pointer to the ANCOUNT
\* field; one whose name is a pointer to the flags word; a question
\* announced and missing; no question; a question for "b.a" and one that is
\* a pointer to its "a"
VariantQuestions ==
    { [qd |-> 1, qs |-> <<WireQuestion(<<1, 97, 0>>, 1, 1)>>],
      [qd |-> 1, qs |-> <<WireQuestion(<<192, 6>>, 1, 1)>>],
      [qd |-> 1, qs |-> <<WireQuestion(<<192, 2>>, 1, 1)>>],
      [qd |-> 1, qs |-> <<>>],
      [qd |-> 0, qs |-> <<>>],
      [qd |-> 2, qs |-> <<WireQuestion(<<1, 98, 1, 97, 0>>, 1, 1), WireQuestion(<<192, 14>>, 1, 1)>>] }

InitVariants ==
    /\ pc = "concurrent"
    /\ \E k \in KeptFlags, q \in VariantQuestions, o \in OtherFlags,
          an \in {0, 353}, ns \in {0, 1}, ar \in {0, 65535} :
          handlers = [i \in Handlers |->
                         NewDNSHandler(IF i = 1
                                       THEN WireRequest(<<4660, k, 0, 0, 0>>, q.qd, q.qs)
                                       ELSE WireRequest(<<4660, k + o, an, ns, ar>>, q.qd, q.qs))]
    /\ requestData = <<>> /\ request = None /\ allAnswers = <<>> /\ response = None
    /\ respBytes = None /\ handleErr = NoErr /\ appResp = None
    /\ udpConn = None /\ source = None
    /\ IdleHeader /\ IdleMessage /\ IdleName

SpecVariants == InitVariants /\ [][NextConcurrent]_vars

\* the requests d and e have the same id, Opcode, RD, QDCOUNT and bytes
\* after the header
SameButIgnored(d, e) ==
    /\ Len(d) >= DNSHeaderSize /\ Len(e) = Len(d)
    /\ Word(d, 0) = Word(e, 0)
    /\ BitAnd(Word(d, 2), KeptFlagBits) = BitAnd(Word(e, 2), KeptFlagBits)
    /\ Word(d, 4) = Word(e, 4)
    /\ SubSeq(d, DNSHeaderSize + 1, Len(d)) = SubSeq(e, DNSHeaderSize + 1, Len(e))

\* the invocations that have returned on such requests have returned the
\* same bytes, or an error both
SameOutcome(i, j) ==
    (handlers[i].at = "returned" /\ handlers[j].at = "returned"
        /\ SameButIgnored(handlers[i].requestData, handlers[j].requestData)) =>
           /\ handlers[i].bytes = handlers[j].bytes
           /\ (handlers[i].err = NoErr) <=> (handlers[j].err = NoErr)

\* C30: two requests with the same id, Opcode, RD, QDCOUNT and question
\* bytes, which differ only in QR, AA, TC, RA, Z, RCODE, ANCOUNT, NSCOUNT and
\* ARCOUNT, get the same outcome of Handle: the same response bytes, or an
\* error both.
C30_IgnoredFieldsIgnored == \A i, j \in Handlers : SameOutcome(i, j)

\* some two bytes after the header of d are a pointer to an offset inside
\* the header
PointsIntoHeader(d) ==
    \E i \in (DNSHeaderSize + 1)..(Len(d) - 1) :
        d[i] >= 192 /\ (d[i] - 192) * 256 + d[i + 1] < DNSHeaderSize

\* the same for the requests without a pointer into the header
IgnoredUnlessPointedAt ==
    \A i, j \in Handlers :
        ~PointsIntoHeader(handlers[i].requestData) => SameOutcome(i, j)

\* a request for "a" and its variant with every other flag bit and count set
\* have both been answered
VariantsAnswered ==
    /\ handlers[1].at = "returned" /\ handlers[2].at = "returned"
    /\ handlers[1].requestData # handlers[2].requestData
    /\ Word(handlers[2].requestData, 2) = 256 + 34559
    /\ Word(handlers[2].requestData, 6) = 353
    /\ handlers[1].err = NoErr /\ Len(handlers[1].bytes) > DNSHeaderSize
    /\ handlers[1].bytes = handlers[2].bytes

====
